---- MODULE Spec2Model ----
(***************************************************************************)
(* A model of the CAN-to-VSS conversion engine (Flow1/can_vss_converter.py)*)
(* and of the frame ingestion buffer (can_interface.py), with the frame    *)
(* encoder of Flow1/fmu_can_handler.py and the forwarding loop of          *)
(* Flow2/zonal_controller.py.                                              *)
(*                                                                         *)
(* Python values are represented as follows.                               *)
(*   dict            a function whose DOMAIN is the set of keys; where the *)
(*                   iteration order matters (the signals of a message     *)
(*                   definition) a sequence in insertion order             *)
(*   Optional[x]     a sequence of length 0 (None) or 1                    *)
(*   decoded value   a record [t, v]: t is "none" for None, "bool" for a   *)
(*                   bool, "num" for the result of value*scale+offset and  *)
(*                   "int" for the raw integer; v is the number            *)
(*   bytes           a sequence of integers 0..255                         *)
(*                                                                         *)
(* Specifications.                                                         *)
(*   Spec          convert, add_message_definition, add_vss_mapping        *)
(*   SpecEngine    every operation of the engine, with fewer inputs        *)
(*   SpecCodec     one extract_signal_from_data call on drawn arguments    *)
(*   SpecDefaults  one convert call on an engine with default registries   *)
(*   SpecBuf       the CanInterface used from several threads              *)
(*   SpecConc      convert_can_message called from two threads             *)
(*   SpecLoad      one load_mappings_from_json call on a drawn payload     *)
(*   SpecFmu       fmu_to_can_messages and the engine decoding its frames  *)
(*   SpecZonal     on_msg_received against data_to_Kuksa, zonal_controller *)
(***************************************************************************)
EXTENDS Integers, Sequences, FiniteSets, TLC

VARIABLES
    message_definitions,   \* CANtoVSSConverter.message_definitions
    can_to_vss_mapping,    \* CANtoVSSConverter.can_to_vss_mapping
    stats,                 \* CANtoVSSConverter.stats
    op,                    \* the operation that produced this state
    last_msg,              \* argument of the last convert_can_message call
    ret,                   \* dict returned by the last convert_can_message call
    raised,                \* the except branch of the last convert call ran
    pre,                   \* stats as they were when the last convert call began
    rx_buffer,             \* CanInterface.rx_buffer, oldest frame first
    lock,                  \* CanInterface.lock: the thread holding it, or NoThread
    notifier_running,      \* the notifier of CanInterface has not been stopped
    bus_open,              \* the bus of CanInterface has not been shut down
    pc,                    \* where each thread using the CanInterface stands
    arg,                   \* the msg of each thread's _on_msg_received call
    late,                  \* that call was made after shutdown() had returned
    query,                 \* the can_id of the reader's get_latest call
    found,                 \* what the reader's get_latest call returns
    snap,                  \* what the reader's get_all call returned
    arrived,               \* every frame appended so far, in the order of the appends
    snap_at,               \* how many frames had arrived when snap was taken
    cpc,                   \* where each thread calling convert_can_message stands
    cmsg,                  \* the can_msg of each thread's convert call
    tmp,                   \* the counter value a thread has read and not yet written back
    done,                  \* how many concurrent convert calls have returned
    expected,              \* the counters if those calls had run one after the other
    vss_client,            \* CANtoVSSConverter.vss_client: NoClient, or the client's state
    stats_snap,            \* the dict the last get_statistics call returned
    sends_in_flight,       \* send_vss_signals calls waiting in set_current_values
    codec_data,            \* the data argument of the extract_signal_from_data call
    codec_def,             \* the signal_def argument of that call
    codec_raw,             \* value as it stands before scale and offset are applied
    codec_out,             \* what the call returned
    codec_pc,              \* "input" before the call, "done" after it
    probe_msg,             \* a frame handed to an engine that has its default registries
    load_arg,              \* the payload of the load_mappings_from_json call looked at
    load_pre,              \* the two registries as they were before that call
    load_ret,              \* what the last load_mappings_from_json call gave its caller
    fmu_headlamp,          \* the headlamp argument of fmu_to_can_messages
    fmu_power,             \* its power argument, a float, in tenths
    fmu_messages,          \* the list of frames it returned
    fmu_next,              \* how many of those frames the engine has converted
    zonal_rx_buffer,       \* Flow2 zonal_controller: the module's rx_buffer list
    zonal_pc,              \* where data_to_Kuksa stands
    zonal_idx,             \* the position of the list iterator of its for loop
    zonal_set,             \* the last datapoint given to client.set_current_values
    zonal_received,        \* how many frames on_msg_received has appended
    zonal_examined,        \* the frames the for loop has been handed
    zonal_lost             \* the frames clear() removed that the loop was never handed

engineVars == <<message_definitions, can_to_vss_mapping, stats, op, last_msg, ret, raised, pre>>

bufferVars == <<rx_buffer, lock, notifier_running, bus_open, pc, arg, late, query, found,
                snap, arrived, snap_at>>

concVars == <<cpc, cmsg, tmp, done, expected>>

opsVars == <<vss_client, stats_snap, sends_in_flight>>

codecVars == <<codec_data, codec_def, codec_raw, codec_out, codec_pc>>

probeVars == <<probe_msg>>

loadVars == <<load_arg, load_pre, load_ret>>

fmuVars == <<fmu_headlamp, fmu_power, fmu_messages, fmu_next>>

zonalVars == <<zonal_rx_buffer, zonal_pc, zonal_idx, zonal_set, zonal_received,
               zonal_examined, zonal_lost>>

vars == <<engineVars, bufferVars, concVars, opsVars, codecVars, probeVars, loadVars, fmuVars, zonalVars>>

-----------------------------------------------------------------------------
(* Bounds of the model. *)

\* convert_can_message is called at most MaxCalls times in one behaviour.
MaxCalls == 3

\* rx_buffer_size of the CanInterface under test (the code's default is 1000).
Capacity == 2

\* _on_msg_received is called at most MaxPushes times in one behaviour.
MaxPushes == 4

\* The threads calling convert_can_message make at most MaxConcCalls calls.
MaxConcCalls == 3

-----------------------------------------------------------------------------
(* Values *)

NoneVal == [t |-> "none", v |-> 0]

Absent == <<>>

Some(x) == <<x>>

\* A vss_path that is not hashable in Python (a JSON list read by
\* load_mappings_from_json, which stores signal["vss_path"] unchecked).
ListPath == "['Vehicle', 'B']"

Hashable(vss_path) == vss_path # ListPath

Max2(a, b) == IF a >= b THEN a ELSE b

Min2(a, b) == IF a <= b THEN a ELSE b

Pow2(n) == 2^n

\* data[lo:hi]: an index below 0 counts from the end of data, and each index
\* is then clipped to 0 .. len(data).
Slice(data, lo, hi) ==
    LET start == IF lo < 0 THEN Max2(lo + Len(data), 0) ELSE Min2(lo, Len(data))
        stop == IF hi < 0 THEN Max2(hi + Len(data), 0) ELSE Min2(hi, Len(data))
    IN  SubSeq(data, start + 1, stop)

\* The bytes combined with the first byte as the most significant one.
RECURSIVE LittleEndian_FirstByteHigh(_)
LittleEndian_FirstByteHigh(bytes) ==
    IF bytes = <<>> THEN 0
    ELSE bytes[Len(bytes)] + 256 * LittleEndian_FirstByteHigh(SubSeq(bytes, 1, Len(bytes) - 1))

\* value = 0; for i, byte in enumerate(relevant_bytes): value |= byte << (i*8)
RECURSIVE LittleEndian(_)
LittleEndian(bytes) ==
    IF bytes = <<>> THEN 0
    ELSE bytes[1] + 256 * LittleEndian(Tail(bytes))

CANSignalType == {"boolean", "uint8", "uint16", "uint32", "int8", "int16", "int32", "float"}

CANSignalDefinition(name, start_bit, bit_length, signal_type) ==
    [name |-> name, start_bit |-> start_bit, bit_length |-> bit_length,
     signal_type |-> signal_type, scale |-> 1, offset |-> 0,
     min_val |-> Absent, max_val |-> Absent]

CANMessageDefinition(can_id, name, dlc, signals) ==
    [can_id |-> can_id, name |-> name, dlc |-> dlc, signals |-> signals]

-----------------------------------------------------------------------------
(* Bit codec *)

\* The bounds applied to value before scale and offset instead of after.
ScaleAndClamp_ClampFirst(value, signal_def) ==
    LET lo == IF signal_def.min_val # Absent
              THEN Max2(value, signal_def.min_val[1]) ELSE value
        clamped == IF signal_def.max_val # Absent
                   THEN Min2(lo, signal_def.max_val[1]) ELSE lo
    IN  (clamped * signal_def.scale) + signal_def.offset

\* result = value*scale + offset, then max(result, min_val), min(result, max_val)
ScaleAndClamp(value, signal_def) ==
    LET result == (value * signal_def.scale) + signal_def.offset
        lo == IF signal_def.min_val # Absent
              THEN Max2(result, signal_def.min_val[1]) ELSE result
    IN  IF signal_def.max_val # Absent
        THEN Min2(lo, signal_def.max_val[1]) ELSE lo

\* relevant_bytes = data[start_byte:start_byte + num_bytes]
RelevantBytes(data, signal_def) ==
    LET start_byte == signal_def.start_bit \div 8
        num_bytes == (signal_def.bit_length + 7) \div 8
    IN  Slice(data, start_byte, start_byte + num_bytes)

\* value after the bytes are combined and, where the code does it, shifted
\* right by start_bit_in_byte and masked to bit_length bits.
MaskedValue(data, signal_def) ==
    LET start_bit_in_byte == signal_def.start_bit % 8
        num_bytes == (signal_def.bit_length + 7) \div 8
        combined == LittleEndian(RelevantBytes(data, signal_def))
    IN  IF start_bit_in_byte > 0 \/ signal_def.bit_length < num_bytes * 8
        THEN (combined \div Pow2(start_bit_in_byte)) % Pow2(signal_def.bit_length)
        ELSE combined

\* The signed kinds testing bit 7 whatever the bit_length of the field is.
SignedValue_Bit7(value, bit_length) ==
    IF (value \div Pow2(7)) % 2 = 1 THEN value - Pow2(bit_length) ELSE value

\* if value & (1 << (bit_length - 1)): value = value - (1 << bit_length)
SignedValue(value, bit_length) ==
    IF (value \div Pow2(bit_length - 1)) % 2 = 1
    THEN value - Pow2(bit_length)
    ELSE value

\* value as it stands when scale and offset are about to be applied (for a
\* boolean and for the fall-through, when it is returned).
RawValue(data, signal_def) ==
    IF signal_def.signal_type \in {"int8", "int16", "int32"}
    THEN SignedValue(MaskedValue(data, signal_def), signal_def.bit_length)
    ELSE MaskedValue(data, signal_def)

\* None is returned for an empty relevant_bytes and from the except branch:
\* 1 << n raises ValueError (negative shift count) for n < 0, in the mask
\* for a bit_length below 0 and in the sign test for a bit_length below 1.
extract_signal_from_data(data, signal_def) ==
    LET start_bit_in_byte == signal_def.start_bit % 8
        num_bytes == (signal_def.bit_length + 7) \div 8
        masked == start_bit_in_byte > 0 \/ signal_def.bit_length < num_bytes * 8
        shift_raises ==
            \/ masked /\ signal_def.bit_length < 0
            \/ signal_def.signal_type \in {"int8", "int16", "int32"}
                  /\ signal_def.bit_length - 1 < 0
        value == RawValue(data, signal_def)
    IN  IF RelevantBytes(data, signal_def) = <<>> THEN NoneVal
        ELSE IF shift_raises THEN NoneVal
        ELSE IF signal_def.signal_type = "boolean"
             THEN [t |-> "bool", v |-> IF value # 0 THEN 1 ELSE 0]
        ELSE IF signal_def.signal_type \in {"uint8", "uint16", "uint32"}
             THEN [t |-> "num", v |-> ScaleAndClamp(value, signal_def)]
        ELSE IF signal_def.signal_type \in {"int8", "int16", "int32"}
             THEN [t |-> "num", v |-> ScaleAndClamp(value, signal_def)]
        ELSE IF signal_def.signal_type = "float"
             THEN [t |-> "num", v |-> ScaleAndClamp(value, signal_def)]
        ELSE [t |-> "int", v |-> value]

-----------------------------------------------------------------------------
(* Conversion engine *)

EmptyDict == [k \in {} |-> NoneVal]

\* d[k] = x
DictSet(d, k, x) == [j \in DOMAIN d \cup {k} |-> IF j = k THEN x ELSE d[j]]

\* can_msg is None: reading can_msg.arbitration_id raises AttributeError.
NoMessage == [is_msg |-> FALSE, arbitration_id |-> 0, data |-> <<>>]

Message(arbitration_id, data) ==
    [is_msg |-> TRUE, arbitration_id |-> arbitration_id, data |-> data]

\* The loop storing the value of a signal that has no mapping under the
\* signal's own name.
RECURSIVE ConvertLoop_FallbackName(_, _, _, _, _)
ConvertLoop_FallbackName(signals, i, data, mapping, vss_signals) ==
    IF i > Len(signals) THEN [vss_signals |-> vss_signals, fault |-> FALSE]
    ELSE LET signal_def == signals[i]
             signal_name == signal_def.name
             value == extract_signal_from_data(data, signal_def)
             vss_path == IF signal_name \in DOMAIN mapping
                         THEN mapping[signal_name] ELSE signal_name
         IN  IF value # NoneVal
             THEN IF Hashable(vss_path)
                  THEN ConvertLoop_FallbackName(signals, i + 1, data, mapping,
                                                DictSet(vss_signals, vss_path, value))
                  ELSE [vss_signals |-> vss_signals, fault |-> TRUE]
             ELSE ConvertLoop_FallbackName(signals, i + 1, data, mapping, vss_signals)

\* The for loop of convert_can_message from signal number i on, vss_signals
\* being the dict built so far.  fault: the loop body raised.
RECURSIVE ConvertLoop(_, _, _, _, _)
ConvertLoop(signals, i, data, mapping, vss_signals) ==
    IF i > Len(signals) THEN [vss_signals |-> vss_signals, fault |-> FALSE]
    ELSE LET signal_def == signals[i]
             signal_name == signal_def.name
             value == extract_signal_from_data(data, signal_def)
         IN  IF value # NoneVal /\ signal_name \in DOMAIN mapping
             THEN LET vss_path == mapping[signal_name]
                  IN  IF Hashable(vss_path)
                      THEN ConvertLoop(signals, i + 1, data, mapping,
                                       DictSet(vss_signals, vss_path, value))
                      ELSE [vss_signals |-> vss_signals, fault |-> TRUE]
             ELSE ConvertLoop(signals, i + 1, data, mapping, vss_signals)

\* convert_can_message indexing both registries without the "not in" tests:
\* a missing key raises KeyError, which the except branch catches.
ConvertBody_KeyError(can_msg, defs, maps) ==
    IF ~can_msg.is_msg THEN [vss_signals |-> EmptyDict, fault |-> TRUE]
    ELSE LET can_id == can_msg.arbitration_id
         IN  IF can_id \notin DOMAIN defs \/ can_id \notin DOMAIN maps
             THEN [vss_signals |-> EmptyDict, fault |-> TRUE]
             ELSE ConvertLoop(defs[can_id].signals, 1, can_msg.data,
                              maps[can_id], EmptyDict)

\* The body of the try block of convert_can_message, without the counters:
\* the dict the call returns and whether the except branch ran.
ConvertBody(can_msg, defs, maps) ==
    IF ~can_msg.is_msg THEN [vss_signals |-> EmptyDict, fault |-> TRUE]
    ELSE LET can_id == can_msg.arbitration_id
         IN  IF can_id \notin DOMAIN defs
             THEN [vss_signals |-> EmptyDict, fault |-> FALSE]
             ELSE IF can_id \notin DOMAIN maps
             THEN [vss_signals |-> EmptyDict, fault |-> FALSE]
             ELSE ConvertLoop(defs[can_id].signals, 1, can_msg.data,
                              maps[can_id], EmptyDict)

\* The early returns leave the try block before the counters at its end.
ReachesEnd(can_msg, defs, maps) ==
    /\ can_msg.is_msg
    /\ can_msg.arbitration_id \in DOMAIN defs
    /\ can_msg.arbitration_id \in DOMAIN maps

\* convert_can_message assigning 1 to the error counter instead of adding 1.
StatsAfterConvert_ErrorsSetToOne(s, can_msg, defs, maps) ==
    LET out == ConvertBody(can_msg, defs, maps)
        s1 == [s EXCEPT !.messages_received = @ + 1]
    IN  IF out.fault THEN [s1 EXCEPT !.errors = 1]
        ELSE IF ReachesEnd(can_msg, defs, maps) /\ DOMAIN out.vss_signals # {}
        THEN [s1 EXCEPT !.messages_converted = @ + 1,
                        !.signals_sent = @ + Cardinality(DOMAIN out.vss_signals)]
        ELSE s1

\* convert_can_message counting the frame as converted outside the
\* "if vss_signals" test.
StatsAfterConvert_CountsEmpty(s, can_msg, defs, maps) ==
    LET out == ConvertBody(can_msg, defs, maps)
        s1 == [s EXCEPT !.messages_received = @ + 1]
    IN  IF out.fault THEN [s1 EXCEPT !.errors = @ + 1]
        ELSE IF ReachesEnd(can_msg, defs, maps)
        THEN [s1 EXCEPT !.messages_converted = @ + 1,
                        !.signals_sent = @ + Cardinality(DOMAIN out.vss_signals)]
        ELSE s1

\* convert_can_message adding 1 to signals_sent instead of len(vss_signals).
StatsAfterConvert_CountOne(s, can_msg, defs, maps) ==
    LET out == ConvertBody(can_msg, defs, maps)
        s1 == [s EXCEPT !.messages_received = @ + 1]
    IN  IF out.fault THEN [s1 EXCEPT !.errors = @ + 1]
        ELSE IF ReachesEnd(can_msg, defs, maps) /\ DOMAIN out.vss_signals # {}
        THEN [s1 EXCEPT !.messages_converted = @ + 1, !.signals_sent = @ + 1]
        ELSE s1

\* The counters after one convert_can_message call that began with counters s.
StatsAfterConvert(s, can_msg, defs, maps) ==
    LET out == ConvertBody(can_msg, defs, maps)
        s1 == [s EXCEPT !.messages_received = @ + 1]
    IN  IF out.fault THEN [s1 EXCEPT !.errors = @ + 1]
        ELSE IF ReachesEnd(can_msg, defs, maps) /\ DOMAIN out.vss_signals # {}
        THEN [s1 EXCEPT !.messages_converted = @ + 1,
                        !.signals_sent = @ + Cardinality(DOMAIN out.vss_signals)]
        ELSE s1

-----------------------------------------------------------------------------
(* Initial registries: _initialize_default_mappings *)

headlamp_msg ==
    CANMessageDefinition(256, "HeadlampControl", 8,
        <<CANSignalDefinition("HeadlampStatus", 0, 8, "uint8")>>)

power_msg ==
    CANMessageDefinition(257, "LampPowerStatus", 8,
        <<CANSignalDefinition("LampPower", 0, 16, "uint16")>>)

ambient_msg ==
    CANMessageDefinition(258, "AmbientLightSensor", 8,
        <<CANSignalDefinition("AmbientLight", 0, 16, "uint16")>>)

DefaultDefinitions ==
    [id \in {256, 257, 258} |->
        IF id = 256 THEN headlamp_msg ELSE IF id = 257 THEN power_msg ELSE ambient_msg]

DefaultMappings ==
    [id \in {256, 257, 258} |->
        IF id = 256 THEN [n \in {"HeadlampStatus"} |-> "Vehicle.Body.Lights.IsHighBeamOn"]
        ELSE IF id = 257 THEN [n \in {"LampPower"} |-> "Vehicle.Body.Lighting.Power"]
        ELSE [n \in {"AmbientLight"} |-> "Vehicle.Body.Lights.AmbientLight"]]

ZeroStats ==
    [messages_received |-> 0, messages_converted |-> 0, signals_sent |-> 0, errors |-> 0]

-----------------------------------------------------------------------------
(* Inputs *)

\* A second message layout: two byte-wide signals, iterated in this order.
two_signal_msg ==
    CANMessageDefinition(259, "LightIntensity", 8,
        <<CANSignalDefinition("A", 0, 8, "uint8"),
          CANSignalDefinition("B", 8, 8, "uint8")>>)

\* Another layout for the same id: three byte-wide signals, the one in the
\* last byte first in the dict.
three_signal_msg ==
    CANMessageDefinition(259, "LightIntensity3", 8,
        <<CANSignalDefinition("C", 16, 8, "uint8"),
          CANSignalDefinition("A", 0, 8, "uint8"),
          CANSignalDefinition("B", 8, 8, "uint8")>>)

DefInputs == {two_signal_msg, three_signal_msg}

MapIds == {259}

MapNames == {"A", "B", "C"}

MapPaths == {"Vehicle.A", "Vehicle.B", ListPath}

FrameIds == {256, 257, 259, 512}

FrameData == {<<>>, <<1>>, <<5, 6>>}

MsgInputs == {NoMessage} \cup {Message(id, d) : id \in FrameIds, d \in FrameData}

-----------------------------------------------------------------------------
(* Operations of the engine *)

InitEngine ==
    /\ message_definitions = DefaultDefinitions
    /\ can_to_vss_mapping = DefaultMappings
    /\ stats = ZeroStats
    /\ op = "init"
    /\ last_msg = NoMessage
    /\ ret = EmptyDict
    /\ raised = FALSE
    /\ pre = ZeroStats

\* The mapping registry as a defaultdict(dict): looking up the frame's id
\* stores an empty entry for an id that had none.
convert_can_message_StoresLookedUpId(can_msg) ==
    /\ stats.messages_received < MaxCalls
    /\ stats' = StatsAfterConvert(stats, can_msg, message_definitions, can_to_vss_mapping)
    /\ ret' = ConvertBody(can_msg, message_definitions, can_to_vss_mapping).vss_signals
    /\ raised' = ConvertBody(can_msg, message_definitions, can_to_vss_mapping).fault
    /\ pre' = stats
    /\ last_msg' = can_msg
    /\ op' = "convert"
    /\ can_to_vss_mapping' =
          IF can_msg.is_msg /\ can_msg.arbitration_id \notin DOMAIN can_to_vss_mapping
          THEN [id \in DOMAIN can_to_vss_mapping \cup {can_msg.arbitration_id} |->
                   IF id = can_msg.arbitration_id THEN [n \in {} |-> ""]
                   ELSE can_to_vss_mapping[id]]
          ELSE can_to_vss_mapping
    /\ UNCHANGED message_definitions

convert_can_message(can_msg) ==
    /\ stats.messages_received < MaxCalls
    /\ stats' = StatsAfterConvert(stats, can_msg, message_definitions, can_to_vss_mapping)
    /\ ret' = ConvertBody(can_msg, message_definitions, can_to_vss_mapping).vss_signals
    /\ raised' = ConvertBody(can_msg, message_definitions, can_to_vss_mapping).fault
    /\ pre' = stats
    /\ last_msg' = can_msg
    /\ op' = "convert"
    /\ UNCHANGED <<message_definitions, can_to_vss_mapping>>

\* dict.setdefault in place of the assignment: a definition already stored
\* for the id stays.
add_message_definition_KeepExisting(msg_def) ==
    /\ message_definitions' =
          [id \in DOMAIN message_definitions \cup {msg_def.can_id} |->
              IF id \in DOMAIN message_definitions
              THEN message_definitions[id] ELSE msg_def]
    /\ op' = "add_message_definition"
    /\ UNCHANGED <<can_to_vss_mapping, stats, last_msg, ret, raised, pre>>

add_message_definition(msg_def) ==
    /\ message_definitions' =
          [id \in DOMAIN message_definitions \cup {msg_def.can_id} |->
              IF id = msg_def.can_id THEN msg_def ELSE message_definitions[id]]
    /\ op' = "add_message_definition"
    /\ UNCHANGED <<can_to_vss_mapping, stats, last_msg, ret, raised, pre>>

\* A guard on the definitions in front of the assignment: nothing is stored
\* for an id that has no message definition.
add_vss_mapping_RequiresDefinition(can_id, signal_name, vss_path) ==
    /\ can_to_vss_mapping' =
          IF can_id \in DOMAIN message_definitions
          THEN LET m0 == IF can_id \in DOMAIN can_to_vss_mapping
                         THEN can_to_vss_mapping
                         ELSE [id \in DOMAIN can_to_vss_mapping \cup {can_id} |->
                                  IF id = can_id THEN [n \in {} |-> ""]
                                  ELSE can_to_vss_mapping[id]]
               IN  [m0 EXCEPT ![can_id] = DictSet(m0[can_id], signal_name, vss_path)]
          ELSE can_to_vss_mapping
    /\ op' = "add_vss_mapping"
    /\ UNCHANGED <<message_definitions, stats, last_msg, ret, raised, pre>>

add_vss_mapping(can_id, signal_name, vss_path) ==
    /\ LET m0 == IF can_id \in DOMAIN can_to_vss_mapping
                 THEN can_to_vss_mapping
                 ELSE [id \in DOMAIN can_to_vss_mapping \cup {can_id} |->
                          IF id = can_id THEN [n \in {} |-> ""]
                          ELSE can_to_vss_mapping[id]]
       IN  can_to_vss_mapping' =
              [m0 EXCEPT ![can_id] = DictSet(m0[can_id], signal_name, vss_path)]
    /\ op' = "add_vss_mapping"
    /\ UNCHANGED <<message_definitions, stats, last_msg, ret, raised, pre>>

-----------------------------------------------------------------------------
(* load_mappings_from_json.  The payload is what json.load returns:          *)
(*   [readable, message_definitions, mappings]; readable is FALSE when open  *)
(*   or json.load raises; each list is Absent when the key is not in config  *)
(*   can_id   [kind |-> "str", chars], [kind |-> "int", value] or            *)
(*            [kind |-> "missing"]; chars are the code points of the string  *)
(*   complete FALSE when a key the code indexes is not in the object         *)

\* The characters str.isspace is true for and int strips: \t \n \v \f \r,
\* the space, U+0085, U+00A0, U+1680, U+2000..U+200A, U+2028, U+2029,
\* U+202F, U+205F and U+3000.
BlankChars ==
    (9..13) \cup {32, 133, 160, 5760} \cup (8192..8202)
    \cup {8232, 8233, 8239, 8287, 12288}

\* The digit zero of every run of ten decimal digits (category Nd) of Unicode
\* 14.0, the ASCII one (48) first.
DecimalZeros ==
    {48, 1632, 1776, 1984, 2406, 2534, 2662, 2790, 2918,
     3046, 3174, 3302, 3430, 3558, 3664, 3792, 3872, 4160,
     4240, 6112, 6160, 6470, 6608, 6784, 6800, 6992, 7088,
     7232, 7248, 42528, 43216, 43264, 43472, 43504, 43600, 44016,
     65296, 66720, 68912, 69734, 69872, 69942, 70096, 70384, 70736,
     70864, 71248, 71360, 71472, 71904, 72016, 72784, 73040, 73120,
     92768, 92864, 93008, 120782, 120792, 120802, 120812, 120822, 123200,
     123632, 125264, 130032}

\* What int makes of a character before it parses: an ASCII character stays,
\* any other blank becomes a space (32), any other decimal digit becomes the
\* ASCII digit of its value, and the rest becomes "?" (63).
AsciiOf(c) ==
    IF c < 128 THEN c
    ELSE IF c \in BlankChars THEN 32
    ELSE IF \E z \in DecimalZeros : c \in z..(z + 9)
    THEN 48 + (c - (CHOOSE z \in DecimalZeros : c \in z..(z + 9)))
    ELSE 63

\* The digits of int(.., 16) from the first one on, as ASCII characters:
\* "0".."9" (48..57), "a".."f" (97..102) and "A".."F" (65..70).  Some(n), or
\* Absent for ValueError.  A single underscore (95) may stand in front of a
\* digit.
RECURSIVE ParseHex(_, _)
ParseHex(chars, acc) ==
    IF chars = <<>> THEN Some(acc)
    ELSE IF chars[1] = 95
    THEN IF Len(chars) >= 2 /\ chars[2] # 95 THEN ParseHex(Tail(chars), acc) ELSE Absent
    ELSE IF chars[1] \in 48..57 THEN ParseHex(Tail(chars), (16 * acc) + (chars[1] - 48))
    ELSE IF chars[1] \in 97..102 THEN ParseHex(Tail(chars), (16 * acc) + (chars[1] - 87))
    ELSE IF chars[1] \in 65..70 THEN ParseHex(Tail(chars), (16 * acc) + (chars[1] - 55))
    ELSE Absent

\* int(.., 16) once every character is an ASCII one: blanks around the
\* number are dropped, then come an optional sign ("+" 43, "-" 45), an
\* optional 0x or 0X ("x" 120, "X" 88), and the digits; an underscore may
\* follow the prefix but not open the digits otherwise.  Some(n), or Absent
\* when it raises ValueError.
ParseInt16(ascii) ==
    LET inked == {i \in 1..Len(ascii) : ascii[i] \notin BlankChars}
    IN  IF inked = {} THEN Absent
        ELSE LET body == SubSeq(ascii, CHOOSE i \in inked : \A j \in inked : i <= j,
                                       CHOOSE i \in inked : \A j \in inked : j <= i)
                 mag == IF body[1] \in {43, 45} THEN Tail(body) ELSE body
                 prefixed == Len(mag) >= 2 /\ mag[1] = 48 /\ mag[2] \in {120, 88}
                 digits == IF prefixed THEN SubSeq(mag, 3, Len(mag)) ELSE mag
                 n == ParseHex(digits, 0)
             IN  IF digits = <<>> \/ (~prefixed /\ digits[1] = 95) \/ n = Absent
                 THEN Absent
                 ELSE Some(IF body[1] = 45 THEN -n[1] ELSE n[1])

\* int(chars, 16) for a string given as the code points of its characters.
IntBase16(chars) == ParseInt16([i \in 1..Len(chars) |-> AsciiOf(chars[i])])

\* int(x["can_id"], 16) if isinstance(x["can_id"], str) else x["can_id"]
CanIdOf(field) ==
    IF field.kind = "missing" THEN Absent
    ELSE IF field.kind = "int" THEN Some(field.value)
    ELSE IntBase16(field.chars)

\* signals[sig_def["name"]] = signal: a name already in the dict keeps its place.
SignalsSet(signals, signal) ==
    IF \E j \in 1..Len(signals) : signals[j].name = signal.name
    THEN [j \in 1..Len(signals) |->
             IF signals[j].name = signal.name THEN signal ELSE signals[j]]
    ELSE Append(signals, signal)

\* The inner loop over msg_def["signals"]: ok is FALSE when an object lacks a
\* key or CANSignalType(sig_def["type"]) raises ValueError.
RECURSIVE LoadSignals(_, _, _)
LoadSignals(sig_defs, i, signals) ==
    IF i > Len(sig_defs) THEN [ok |-> TRUE, signals |-> signals]
    ELSE IF ~sig_defs[i].complete \/ sig_defs[i].type \notin CANSignalType
    THEN [ok |-> FALSE, signals |-> signals]
    ELSE LoadSignals(sig_defs, i + 1,
             SignalsSet(signals,
                 CANSignalDefinition(sig_defs[i].name, sig_defs[i].start_bit,
                                     sig_defs[i].bit_length, sig_defs[i].type)))

\* The loop over config["message_definitions"] from item i on.
RECURSIVE LoadDefinitions(_, _, _)
LoadDefinitions(items, i, defs) ==
    IF i > Len(items) THEN [ok |-> TRUE, defs |-> defs]
    ELSE LET can_id == CanIdOf(items[i].can_id)
             loaded == LoadSignals(items[i].signals, 1, <<>>)
         IN  IF can_id = Absent \/ ~items[i].complete \/ ~loaded.ok
             THEN [ok |-> FALSE, defs |-> defs]
             ELSE LoadDefinitions(items, i + 1,
                      [id \in DOMAIN defs \cup {can_id[1]} |->
                          IF id = can_id[1]
                          THEN CANMessageDefinition(can_id[1], items[i].name,
                                                    items[i].dlc, loaded.signals)
                          ELSE defs[id]])

\* The inner loop over mapping["signals"] from entry j on; m is the dict of
\* the group's can_id.
RECURSIVE LoadGroupSignals(_, _, _)
LoadGroupSignals(entries, j, m) ==
    IF j > Len(entries) THEN [ok |-> TRUE, m |-> m]
    ELSE IF ~entries[j].complete THEN [ok |-> FALSE, m |-> m]
    ELSE LoadGroupSignals(entries, j + 1, DictSet(m, entries[j].name, entries[j].vss_path))

\* The loop over config["mappings"] from group i on.
RECURSIVE LoadMappings(_, _, _)
LoadMappings(groups, i, maps) ==
    IF i > Len(groups) THEN [ok |-> TRUE, maps |-> maps]
    ELSE LET can_id == CanIdOf(groups[i].can_id)
         IN  IF can_id = Absent THEN [ok |-> FALSE, maps |-> maps]
             ELSE LET m0 == IF can_id[1] \in DOMAIN maps THEN maps
                            ELSE [id \in DOMAIN maps \cup {can_id[1]} |->
                                     IF id = can_id[1] THEN [n \in {} |-> ""]
                                     ELSE maps[id]]
                      loaded == LoadGroupSignals(groups[i].signals[1], 1, m0[can_id[1]])
                  IN  IF groups[i].signals = Absent THEN [ok |-> FALSE, maps |-> m0]
                      ELSE IF ~loaded.ok
                      THEN [ok |-> FALSE, maps |-> [m0 EXCEPT ![can_id[1]] = loaded.m]]
                      ELSE LoadMappings(groups, i + 1, [m0 EXCEPT ![can_id[1]] = loaded.m])

\* The try block with a rollback in the except branch: a payload that is
\* malformed anywhere leaves both registries as they were.
LoadResult_AllOrNothing(payload, defs, maps) ==
    IF ~payload.readable THEN [ok |-> FALSE, defs |-> defs, maps |-> maps]
    ELSE LET d == IF payload.message_definitions = Absent
                  THEN [ok |-> TRUE, defs |-> defs]
                  ELSE LoadDefinitions(payload.message_definitions[1], 1, defs)
             m == IF payload.mappings = Absent
                  THEN [ok |-> TRUE, maps |-> maps]
                  ELSE LoadMappings(payload.mappings[1], 1, maps)
         IN  IF d.ok /\ m.ok THEN [ok |-> TRUE, defs |-> d.defs, maps |-> m.maps]
             ELSE [ok |-> FALSE, defs |-> defs, maps |-> maps]

\* The try block of load_mappings_from_json: the registries it leaves and
\* whether it ran to its end (ok) or the except branch caught something.
LoadResult(payload, defs, maps) ==
    IF ~payload.readable THEN [ok |-> FALSE, defs |-> defs, maps |-> maps]
    ELSE LET d == IF payload.message_definitions = Absent
                  THEN [ok |-> TRUE, defs |-> defs]
                  ELSE LoadDefinitions(payload.message_definitions[1], 1, defs)
             m == IF payload.mappings = Absent
                  THEN [ok |-> TRUE, maps |-> maps]
                  ELSE LoadMappings(payload.mappings[1], 1, maps)
         IN  IF ~d.ok THEN [ok |-> FALSE, defs |-> d.defs, maps |-> maps]
             ELSE [ok |-> m.ok, defs |-> d.defs, maps |-> m.maps]

\* What the caller of load_mappings_from_json gets.  There is no return
\* statement and the except clause catches every Exception: the value is None
\* and nothing is raised, whether the try block ran to its end or not (the two
\* print calls write to stdout only).
LoadReturn(payload, defs, maps) ==
    IF LoadResult(payload, defs, maps).ok
    THEN [raised |-> FALSE, value |-> "None"]
    ELSE [raised |-> FALSE, value |-> "None"]

load_mappings_from_json(payload) ==
    /\ message_definitions' =
          LoadResult(payload, message_definitions, can_to_vss_mapping).defs
    /\ can_to_vss_mapping' =
          LoadResult(payload, message_definitions, can_to_vss_mapping).maps
    /\ load_ret' = LoadReturn(payload, message_definitions, can_to_vss_mapping)
    /\ op' = "load_mappings_from_json"
    /\ UNCHANGED <<stats, last_msg, ret, raised, pre>>

-----------------------------------------------------------------------------
(* connect_to_kuksa, send_vss_signals and get_statistics *)

\* At most MaxInFlight send_vss_signals calls wait in set_current_values at
\* one time.
MaxInFlight == 1

\* self.vss_client = None
NoClient == "none"

\* get_statistics has not been called yet.
NoSnapshot == [alias |-> FALSE, taken |-> FALSE, items |-> ZeroStats]

InitOps ==
    /\ vss_client = NoClient
    /\ stats_snap = NoSnapshot
    /\ sends_in_flight = 0

\* VSSClient(...) raises and leaves vss_client as it was, or the client is
\* stored (whether or not __aenter__ then raises).
connect_to_kuksa(constructor_raises) ==
    /\ vss_client' = IF constructor_raises THEN vss_client ELSE "client"
    /\ op' = "connect_to_kuksa"
    /\ UNCHANGED <<message_definitions, can_to_vss_mapping, stats, last_msg, ret,
                   raised, pre, stats_snap, sends_in_flight>>

\* send_vss_signals up to its await: it returns at once for an empty dict or
\* without a client; otherwise it hands the datapoints to
\* client.set_current_values and waits there, and the event loop runs other
\* calls meanwhile.
send_vss_signals(vss_signals) ==
    /\ sends_in_flight < MaxInFlight
    /\ sends_in_flight' =
          IF DOMAIN vss_signals = {} \/ vss_client = NoClient
          THEN sends_in_flight ELSE sends_in_flight + 1
    /\ op' = "send_vss_signals"
    /\ UNCHANGED <<message_definitions, can_to_vss_mapping, stats, last_msg, ret, raised,
                   pre, vss_client, stats_snap>>

\* The counters after set_current_values has returned or raised (fails).
StatsAfterSend(s, fails) == IF fails THEN [s EXCEPT !.errors = @ + 1] ELSE s

\* A waiting send_vss_signals call is resumed: set_current_values returned,
\* or raised and the except clause counts the error.
send_vss_signals_resumed(fails) ==
    /\ sends_in_flight > 0
    /\ fails => stats.errors < MaxCalls
    /\ stats' = StatsAfterSend(stats, fails)
    /\ sends_in_flight' = sends_in_flight - 1
    /\ op' = "send_vss_signals_resumed"
    /\ UNCHANGED <<message_definitions, can_to_vss_mapping, last_msg, ret, raised, pre,
                   vss_client, stats_snap>>

\* get_statistics returning self.stats itself.
StatsCopy_LiveReference(s) == [alias |-> TRUE, taken |-> TRUE, items |-> s]

\* self.stats.copy(): a dict of its own (alias FALSE) holding the items of s.
StatsCopy(s) == [alias |-> FALSE, taken |-> TRUE, items |-> s]

get_statistics ==
    /\ stats_snap' = StatsCopy(stats)
    /\ op' = "get_statistics"
    /\ UNCHANGED <<message_definitions, can_to_vss_mapping, stats, last_msg, ret,
                   raised, pre, vss_client, sends_in_flight>>

\* What the caller reads in the dict get_statistics returned.
SnapshotView == IF stats_snap.alias THEN stats ELSE stats_snap.items

\* The caller assigns returned[key] = n.
SnapshotWrite(key, n) ==
    /\ stats_snap.taken
    /\ IF stats_snap.alias
       THEN /\ stats' = [stats EXCEPT ![key] = n]
            /\ UNCHANGED stats_snap
       ELSE /\ stats_snap' = [stats_snap EXCEPT !.items = [@ EXCEPT ![key] = n]]
            /\ UNCHANGED stats
    /\ op' = "snapshot_write"
    /\ UNCHANGED <<message_definitions, can_to_vss_mapping, last_msg, ret, raised, pre,
                   vss_client, sends_in_flight>>

-----------------------------------------------------------------------------
(* Frame ingestion buffer: CanInterface *)

NoThread == "none"

Pushers == {"p1", "p2"}

Reader == "r"

Closer == "c"

Threads == Pushers \cup {Reader, Closer}

BufIds == {1, 2}

BufFrames == {Message(1, <<0>>), Message(1, <<1>>), Message(2, <<0>>)}

\* deque.append on a deque(maxlen) happens in two steps, both inside the
\* critical section of _on_msg_received: the item is added on the right,
\* then the deque is trimmed on the left while it is longer than maxlen.
DequeAppendRight(buffer, msg) == Append(buffer, msg)

\* A trim on the wrong end: the newest frames are discarded.
DequeTrim_DropNewest(buffer, maxlen) ==
    IF Len(buffer) > maxlen THEN SubSeq(buffer, 1, maxlen) ELSE buffer

DequeTrim(buffer, maxlen) ==
    IF Len(buffer) > maxlen THEN SubSeq(buffer, Len(buffer) - maxlen + 1, Len(buffer))
    ELSE buffer

\* for msg in reversed(buffer): if msg.arbitration_id == can_id: return msg
\* ... return None, scanning from index i down.
RECURSIVE ScanReversed(_, _, _)
ScanReversed(buffer, i, can_id) ==
    IF i = 0 THEN NoMessage
    ELSE IF buffer[i].arbitration_id = can_id THEN buffer[i]
    ELSE ScanReversed(buffer, i - 1, can_id)

\* A scan without reversed(): the oldest matching frame is returned.
RECURSIVE ScanForward(_, _, _)
ScanForward(buffer, i, can_id) ==
    IF i > Len(buffer) THEN NoMessage
    ELSE IF buffer[i].arbitration_id = can_id THEN buffer[i]
    ELSE ScanForward(buffer, i + 1, can_id)

get_latest_Oldest(buffer, can_id) == ScanForward(buffer, 1, can_id)

get_latest(buffer, can_id) == ScanReversed(buffer, Len(buffer), can_id)

\* list(self.rx_buffer): a new list.  A list is held as [alias, items]:
\* reading it gives items, or the deque itself when it is the same object.
get_all(buffer) == [alias |-> FALSE, items |-> buffer]

ListView(l) == IF l.alias THEN rx_buffer ELSE l.items

NoList == [alias |-> FALSE, items |-> <<>>]

InitBuffer ==
    /\ rx_buffer = <<>>
    /\ lock = NoThread
    /\ notifier_running = TRUE
    /\ bus_open = TRUE
    /\ pc = [t \in Threads |-> "idle"]
    /\ arg = [t \in Pushers |-> NoMessage]
    /\ late = [t \in Pushers |-> FALSE]
    /\ query = 0
    /\ found = NoMessage
    /\ snap = NoList
    /\ arrived = <<>>
    /\ snap_at = 0

InFlight == Cardinality({t \in Pushers : pc[t] \in {"push_acquire", "push_append"}})

\* _on_msg_received(msg) is entered.  The method tests nothing before it
\* takes the lock: not who calls it, and not whether shutdown() has run.
OnMsgReceivedCall(t, msg) ==
    /\ pc[t] = "idle"
    /\ Len(arrived) + InFlight < MaxPushes
    /\ pc' = [pc EXCEPT ![t] = "push_acquire"]
    /\ arg' = [arg EXCEPT ![t] = msg]
    /\ late' = [late EXCEPT ![t] = (pc[Closer] = "closed")]
    /\ UNCHANGED <<rx_buffer, lock, notifier_running, bus_open, query, found, snap,
                   arrived, snap_at>>

\* _on_msg_received without "with self.lock".
OnMsgReceivedAcquire_NoLock(t) ==
    /\ pc[t] = "push_acquire"
    /\ pc' = [pc EXCEPT ![t] = "push_append"]
    /\ UNCHANGED <<rx_buffer, lock, notifier_running, bus_open, arg, late, query, found,
                   snap, arrived, snap_at>>

\* with self.lock:
OnMsgReceivedAcquire(t) ==
    /\ pc[t] = "push_acquire"
    /\ lock = NoThread
    /\ lock' = t
    /\ pc' = [pc EXCEPT ![t] = "push_append"]
    /\ UNCHANGED <<rx_buffer, notifier_running, bus_open, arg, late, query, found, snap,
                   arrived, snap_at>>

\* self.rx_buffer.append(msg), the item is added
OnMsgReceivedAppend(t) ==
    /\ pc[t] = "push_append"
    /\ rx_buffer' = DequeAppendRight(rx_buffer, arg[t])
    /\ arrived' = Append(arrived, arg[t])
    /\ pc' = [pc EXCEPT ![t] = "push_trim"]
    /\ UNCHANGED <<lock, notifier_running, bus_open, arg, late, query, found, snap, snap_at>>

\* self.rx_buffer.append(msg), the deque is trimmed to maxlen
OnMsgReceivedTrim(t) ==
    /\ pc[t] = "push_trim"
    /\ rx_buffer' = DequeTrim(rx_buffer, Capacity)
    /\ pc' = [pc EXCEPT ![t] = "push_release"]
    /\ UNCHANGED <<lock, notifier_running, bus_open, arg, late, query, found, snap,
                   arrived, snap_at>>

\* the with block is left
OnMsgReceivedRelease(t) ==
    /\ pc[t] = "push_release"
    /\ lock' = NoThread
    /\ pc' = [pc EXCEPT ![t] = "idle"]
    /\ UNCHANGED <<rx_buffer, notifier_running, bus_open, arg, late, query, found, snap,
                   arrived, snap_at>>

GetLatestCall(t, can_id) ==
    /\ pc[t] \in {"idle", "has_latest", "has_list"}
    /\ pc' = [pc EXCEPT ![t] = "latest_acquire"]
    /\ query' = can_id
    /\ found' = NoMessage
    /\ snap' = NoList
    /\ snap_at' = 0
    /\ UNCHANGED <<rx_buffer, lock, notifier_running, bus_open, arg, late, arrived>>

GetLatestAcquire(t) ==
    /\ pc[t] = "latest_acquire"
    /\ lock = NoThread
    /\ lock' = t
    /\ pc' = [pc EXCEPT ![t] = "latest_scan"]
    /\ UNCHANGED <<rx_buffer, notifier_running, bus_open, arg, late, query, found, snap,
                   arrived, snap_at>>

GetLatestScan(t) ==
    /\ pc[t] = "latest_scan"
    /\ found' = get_latest(rx_buffer, query)
    /\ pc' = [pc EXCEPT ![t] = "latest_release"]
    /\ UNCHANGED <<rx_buffer, lock, notifier_running, bus_open, arg, late, query, snap,
                   arrived, snap_at>>

GetLatestRelease(t) ==
    /\ pc[t] = "latest_release"
    /\ lock' = NoThread
    /\ pc' = [pc EXCEPT ![t] = "has_latest"]
    /\ UNCHANGED <<rx_buffer, notifier_running, bus_open, arg, late, query, found, snap,
                   arrived, snap_at>>

GetAllCall(t) ==
    /\ pc[t] \in {"idle", "has_latest", "has_list"}
    /\ pc' = [pc EXCEPT ![t] = "all_acquire"]
    /\ query' = 0
    /\ found' = NoMessage
    /\ snap' = NoList
    /\ snap_at' = 0
    /\ UNCHANGED <<rx_buffer, lock, notifier_running, bus_open, arg, late, arrived>>

\* get_all without "with self.lock".
GetAllAcquire_NoLock(t) ==
    /\ pc[t] = "all_acquire"
    /\ pc' = [pc EXCEPT ![t] = "all_copy"]
    /\ UNCHANGED <<rx_buffer, lock, notifier_running, bus_open, arg, late, query, found,
                   snap, arrived, snap_at>>

GetAllAcquire(t) ==
    /\ pc[t] = "all_acquire"
    /\ lock = NoThread
    /\ lock' = t
    /\ pc' = [pc EXCEPT ![t] = "all_copy"]
    /\ UNCHANGED <<rx_buffer, notifier_running, bus_open, arg, late, query, found, snap,
                   arrived, snap_at>>

GetAllCopy(t) ==
    /\ pc[t] = "all_copy"
    /\ snap' = get_all(rx_buffer)
    /\ snap_at' = Len(arrived)
    /\ pc' = [pc EXCEPT ![t] = "all_release"]
    /\ UNCHANGED <<rx_buffer, lock, notifier_running, bus_open, arg, late, query, found,
                   arrived>>

GetAllRelease(t) ==
    /\ pc[t] = "all_release"
    /\ lock' = NoThread
    /\ pc' = [pc EXCEPT ![t] = "has_list"]
    /\ UNCHANGED <<rx_buffer, notifier_running, bus_open, arg, late, query, found, snap,
                   arrived, snap_at>>

ShutdownCall(t) ==
    /\ pc[t] = "idle"
    /\ pc' = [pc EXCEPT ![t] = "stop_notifier"]
    /\ UNCHANGED <<rx_buffer, lock, notifier_running, bus_open, arg, late, query, found,
                   snap, arrived, snap_at>>

\* self.notifier.stop()
ShutdownStopNotifier(t) ==
    /\ pc[t] = "stop_notifier"
    /\ notifier_running' = FALSE
    /\ pc' = [pc EXCEPT ![t] = "bus_shutdown"]
    /\ UNCHANGED <<rx_buffer, lock, bus_open, arg, late, query, found, snap, arrived,
                   snap_at>>

\* self.bus.shutdown(); shutdown() returns
ShutdownBus(t) ==
    /\ pc[t] = "bus_shutdown"
    /\ bus_open' = FALSE
    /\ pc' = [pc EXCEPT ![t] = "closed"]
    /\ UNCHANGED <<rx_buffer, lock, notifier_running, arg, late, query, found, snap,
                   arrived, snap_at>>

-----------------------------------------------------------------------------
(* convert_can_message called from several threads.  The counters are a   *)
(* plain dict and convert_can_message takes no lock: each                 *)
(* self.stats[k] += n reads the counter in one step and writes it back in *)
(* another.                                                               *)

ConvThreads == {"t1", "t2"}

ConcMsgInputs == {NoMessage, Message(256, <<1>>), Message(259, <<5, 6>>), Message(512, <<>>)}

InitConc ==
    /\ cpc = [t \in ConvThreads |-> "idle"]
    /\ cmsg = [t \in ConvThreads |-> NoMessage]
    /\ tmp = [t \in ConvThreads |-> 0]
    /\ done = 0
    /\ expected = ZeroStats

Started == done + Cardinality({t \in ConvThreads : cpc[t] # "idle"})

\* Where the call goes after self.stats["messages_received"] += 1.
AfterReceived(can_msg) ==
    LET out == ConvertBody(can_msg, message_definitions, can_to_vss_mapping)
    IN  IF out.fault THEN "errors_read"
        ELSE IF ReachesEnd(can_msg, message_definitions, can_to_vss_mapping)
                /\ DOMAIN out.vss_signals # {}
        THEN "converted_read"
        ELSE "return"

ConvCall(t, can_msg) ==
    /\ cpc[t] = "idle"
    /\ Started < MaxConcCalls
    /\ cpc' = [cpc EXCEPT ![t] = "received_read"]
    /\ cmsg' = [cmsg EXCEPT ![t] = can_msg]
    /\ UNCHANGED <<stats, tmp, done, expected>>

\* One half of self.stats[key] += n: the counter is read.
CounterRead(t, at, key, to) ==
    /\ cpc[t] = at
    /\ tmp' = [tmp EXCEPT ![t] = stats[key]]
    /\ cpc' = [cpc EXCEPT ![t] = to]
    /\ UNCHANGED <<stats, cmsg, done, expected>>

\* The other half: the value read, plus n, is stored.
CounterWrite(t, at, key, n, to) ==
    /\ cpc[t] = at
    /\ stats' = [stats EXCEPT ![key] = tmp[t] + n]
    /\ cpc' = [cpc EXCEPT ![t] = to]
    /\ UNCHANGED <<cmsg, tmp, done, expected>>

ConvReceivedRead(t) == CounterRead(t, "received_read", "messages_received", "received_write")

ConvReceivedWrite(t) ==
    CounterWrite(t, "received_write", "messages_received", 1, AfterReceived(cmsg[t]))

ConvConvertedRead(t) == CounterRead(t, "converted_read", "messages_converted", "converted_write")

ConvConvertedWrite(t) == CounterWrite(t, "converted_write", "messages_converted", 1, "sent_read")

ConvSentRead(t) == CounterRead(t, "sent_read", "signals_sent", "sent_write")

ConvSentWrite(t) ==
    CounterWrite(t, "sent_write", "signals_sent",
        Cardinality(DOMAIN ConvertBody(cmsg[t], message_definitions,
                                       can_to_vss_mapping).vss_signals),
        "return")

ConvErrorsRead(t) == CounterRead(t, "errors_read", "errors", "errors_write")

ConvErrorsWrite(t) == CounterWrite(t, "errors_write", "errors", 1, "return")

\* return vss_signals
ConvReturn(t) ==
    /\ cpc[t] = "return"
    /\ cpc' = [cpc EXCEPT ![t] = "idle"]
    /\ done' = done + 1
    /\ expected' = StatsAfterConvert(expected, cmsg[t], message_definitions,
                                     can_to_vss_mapping)
    /\ UNCHANGED <<stats, cmsg, tmp>>

-----------------------------------------------------------------------------
(* What is not in use *)

\* No extract_signal_from_data call is being looked at on its own.
IdleCodec ==
    /\ codec_data = <<>>
    /\ codec_def = CANSignalDefinition("", 0, 0, "uint8")
    /\ codec_raw = 0
    /\ codec_out = NoneVal
    /\ codec_pc = "idle"

IdleProbe == probe_msg = NoMessage

\* No load_mappings_from_json call has been made or is being looked at.
\* fmu_to_can_messages has not been called.
IdleFmu ==
    /\ fmu_headlamp = FALSE
    /\ fmu_power = 0
    /\ fmu_messages = <<>>
    /\ fmu_next = 0

\* zonal_controller as it is when imported: rx_buffer = [], data_to_Kuksa
\* not yet called.
InitZonal ==
    /\ zonal_rx_buffer = <<>>
    /\ zonal_pc = "call"
    /\ zonal_idx = 0
    /\ zonal_set = Absent
    /\ zonal_received = 0
    /\ zonal_examined = {}
    /\ zonal_lost = {}

IdleLoad ==
    /\ load_arg = [readable |-> FALSE, message_definitions |-> Absent, mappings |-> Absent]
    /\ load_pre = [defs |-> DefaultDefinitions, maps |-> DefaultMappings]
    /\ load_ret = [raised |-> FALSE, value |-> "not called"]

-----------------------------------------------------------------------------
(* The engine used from one thread *)

Init == InitEngine /\ InitBuffer /\ InitConc /\ InitOps /\ IdleLoad /\ IdleFmu /\ InitZonal /\ IdleCodec /\ IdleProbe

Next ==
    \/ /\ \E can_msg \in MsgInputs : convert_can_message(can_msg)
       /\ UNCHANGED <<bufferVars, concVars, opsVars, codecVars, probeVars, loadVars, fmuVars, zonalVars>>
    \/ /\ \E msg_def \in DefInputs : add_message_definition(msg_def)
       /\ UNCHANGED <<bufferVars, concVars, opsVars, codecVars, probeVars, loadVars, fmuVars, zonalVars>>
    \/ /\ \E can_id \in MapIds, signal_name \in MapNames, vss_path \in MapPaths :
             add_vss_mapping(can_id, signal_name, vss_path)
       /\ UNCHANGED <<bufferVars, concVars, opsVars, codecVars, probeVars, loadVars, fmuVars, zonalVars>>

Spec == Init /\ [][Next]_vars

-----------------------------------------------------------------------------
(* Properties of the engine, checked under Spec *)

\* C1: whenever a fault occurs inside convert_can_message, the call returns
\* an empty dict and the error counter has grown by exactly one.
C1_FaultYieldsEmptyResult ==
    (op = "convert" /\ raised) =>
        /\ DOMAIN ret = {}
        /\ stats.errors = pre.errors + 1

\* C2: for a frame whose id has no message definition or no mapping entries,
\* convert returns an empty dict, the received counter grows by exactly one
\* and the other three counters are unchanged.
C2_UnmappedFrameOnlyCounted ==
    (/\ op = "convert"
     /\ last_msg.is_msg
     /\ \/ last_msg.arbitration_id \notin DOMAIN message_definitions
        \/ last_msg.arbitration_id \notin DOMAIN can_to_vss_mapping
        \/ DOMAIN can_to_vss_mapping[last_msg.arbitration_id] = {})
    => /\ DOMAIN ret = {}
       /\ stats = [pre EXCEPT !.messages_received = @ + 1]

\* A frame whose id has a definition and no mapping has been converted,
\* after an earlier frame was converted with success.
C2_Witness ==
    /\ op = "convert"
    /\ last_msg.is_msg
    /\ last_msg.arbitration_id \in DOMAIN message_definitions
    /\ last_msg.arbitration_id \notin DOMAIN can_to_vss_mapping
    /\ stats.messages_converted > 0

\* C3: a convert call that completes without a fault and returns R adds one
\* to received; when R is not empty it adds one to converted and the number
\* of entries of R to signals sent; when R is empty it leaves both unchanged.
C3_CountersFollowResult ==
    (op = "convert" /\ ~raised) =>
        /\ stats.messages_received = pre.messages_received + 1
        /\ IF DOMAIN ret # {}
           THEN /\ stats.messages_converted = pre.messages_converted + 1
                /\ stats.signals_sent = pre.signals_sent + Cardinality(DOMAIN ret)
           ELSE /\ stats.messages_converted = pre.messages_converted
                /\ stats.signals_sent = pre.signals_sent

\* A call has returned two entries, after an earlier call had emitted some.
C3_Witness ==
    /\ op = "convert"
    /\ ~raised
    /\ Cardinality(DOMAIN ret) = 2
    /\ pre.signals_sent > 0

-----------------------------------------------------------------------------
(* The frame buffer used from several threads *)

NextBuf ==
    \/ /\ \E t \in Pushers, msg \in BufFrames : OnMsgReceivedCall(t, msg)
       /\ UNCHANGED <<engineVars, concVars, opsVars, codecVars, probeVars, loadVars, fmuVars, zonalVars>>
    \/ /\ \E t \in Pushers : OnMsgReceivedAcquire(t)
       /\ UNCHANGED <<engineVars, concVars, opsVars, codecVars, probeVars, loadVars, fmuVars, zonalVars>>
    \/ /\ \E t \in Pushers : OnMsgReceivedAppend(t)
       /\ UNCHANGED <<engineVars, concVars, opsVars, codecVars, probeVars, loadVars, fmuVars, zonalVars>>
    \/ /\ \E t \in Pushers : OnMsgReceivedTrim(t)
       /\ UNCHANGED <<engineVars, concVars, opsVars, codecVars, probeVars, loadVars, fmuVars, zonalVars>>
    \/ /\ \E t \in Pushers : OnMsgReceivedRelease(t)
       /\ UNCHANGED <<engineVars, concVars, opsVars, codecVars, probeVars, loadVars, fmuVars, zonalVars>>
    \/ /\ \E can_id \in BufIds : GetLatestCall(Reader, can_id)
       /\ UNCHANGED <<engineVars, concVars, opsVars, codecVars, probeVars, loadVars, fmuVars, zonalVars>>
    \/ /\ GetLatestAcquire(Reader)
       /\ UNCHANGED <<engineVars, concVars, opsVars, codecVars, probeVars, loadVars, fmuVars, zonalVars>>
    \/ /\ GetLatestScan(Reader)
       /\ UNCHANGED <<engineVars, concVars, opsVars, codecVars, probeVars, loadVars, fmuVars, zonalVars>>
    \/ /\ GetLatestRelease(Reader)
       /\ UNCHANGED <<engineVars, concVars, opsVars, codecVars, probeVars, loadVars, fmuVars, zonalVars>>
    \/ /\ GetAllCall(Reader)
       /\ UNCHANGED <<engineVars, concVars, opsVars, codecVars, probeVars, loadVars, fmuVars, zonalVars>>
    \/ /\ GetAllAcquire(Reader)
       /\ UNCHANGED <<engineVars, concVars, opsVars, codecVars, probeVars, loadVars, fmuVars, zonalVars>>
    \/ /\ GetAllCopy(Reader)
       /\ UNCHANGED <<engineVars, concVars, opsVars, codecVars, probeVars, loadVars, fmuVars, zonalVars>>
    \/ /\ GetAllRelease(Reader)
       /\ UNCHANGED <<engineVars, concVars, opsVars, codecVars, probeVars, loadVars, fmuVars, zonalVars>>
    \/ /\ ShutdownCall(Closer)
       /\ UNCHANGED <<engineVars, concVars, opsVars, codecVars, probeVars, loadVars, fmuVars, zonalVars>>
    \/ /\ ShutdownStopNotifier(Closer)
       /\ UNCHANGED <<engineVars, concVars, opsVars, codecVars, probeVars, loadVars, fmuVars, zonalVars>>
    \/ /\ ShutdownBus(Closer)
       /\ UNCHANGED <<engineVars, concVars, opsVars, codecVars, probeVars, loadVars, fmuVars, zonalVars>>

SpecBuf == Init /\ [][NextBuf]_vars

-----------------------------------------------------------------------------
(* Properties of the frame buffer, checked under SpecBuf *)

\* The last min(Len(s), n) elements of s, in order.
LastN(s, n) == SubSeq(s, Len(s) - Min2(Len(s), n) + 1, Len(s))

MaxOf(S) == CHOOSE i \in S : \A j \in S : j <= i

\* C4: after n pushes into a buffer of capacity N, get_all returns exactly
\* the last min(n, N) pushed frames in arrival order, the oldest evicted first.
C4_SnapshotIsLastPushes ==
    pc[Reader] = "all_release" => snap.items = LastN(arrived, Capacity)

\* get_all has just returned from a buffer that has evicted frames.
C4_Witness ==
    /\ pc[Reader] = "all_release"
    /\ Len(arrived) > Capacity
    /\ Len(snap.items) = Capacity
    /\ snap.items[1] # arrived[1]

\* C5: get_latest(id) returns the most recently pushed frame among the
\* retained frames whose identifier is id, and None exactly when no retained
\* frame has that identifier.
C5_LatestIsNewestRetained ==
    pc[Reader] = "latest_release" =>
        LET retained == LastN(arrived, Capacity)
            matches == {i \in 1..Len(retained) : retained[i].arbitration_id = query}
        IN  IF matches = {} THEN found = NoMessage
            ELSE found = retained[MaxOf(matches)]

\* get_latest has just chosen between two different retained frames of the
\* id it was asked for.
C5_Witness ==
    /\ pc[Reader] = "latest_release"
    /\ found.is_msg
    /\ \E i, j \in 1..Len(rx_buffer) :
          /\ i < j
          /\ rx_buffer[i].arbitration_id = query
          /\ rx_buffer[j].arbitration_id = query
          /\ rx_buffer[i] # rx_buffer[j]

\* get_latest has just returned None for an id whose frames were all evicted.
C5_WitnessEvicted ==
    /\ pc[Reader] = "latest_release"
    /\ found = NoMessage
    /\ \E i \in 1..Len(arrived) : arrived[i].arbitration_id = query

\* C6: whatever the interleaving of pushes from several threads, a snapshot
\* has at most Capacity frames and each of them is a frame that was pushed.
C6_SnapshotBoundedAndWhole ==
    pc[Reader] \in {"all_release", "has_list"} =>
        /\ Len(snap.items) <= Capacity
        /\ \A i \in 1..Len(snap.items) :
              \E j \in 1..Len(arrived) : snap.items[i] = arrived[j]

\* A full snapshot taken while every pushing thread is inside a push.
C6_Witness ==
    /\ pc[Reader] = "all_release"
    /\ Len(snap.items) = Capacity
    /\ \A t \in Pushers : pc[t] = "push_acquire"

\* C7: a snapshot is the content of the buffer after some number of complete
\* pushes (never a push partly applied), in arrival order, and later pushes
\* do not change it.
C7_SnapshotIsPointInTimeCopy ==
    pc[Reader] \in {"all_release", "has_list"} =>
        ListView(snap) = LastN(SubSeq(arrived, 1, snap_at), Capacity)

\* A snapshot is still held after later pushes changed the buffer.
C7_Witness ==
    /\ pc[Reader] = "has_list"
    /\ snap_at >= Capacity
    /\ Len(arrived) > snap_at
    /\ rx_buffer # snap.items

\* C8: once shutdown() has returned, every later call of the push callback
\* leaves the stored frames as they were.
C8_PushAfterShutdownIsNoOp ==
    [][\A t \in Pushers : (late[t] /\ pc'[t] # pc[t]) => rx_buffer' = rx_buffer]_vars

\* C9: a push racing shutdown() is applied as a whole or not at all: no push
\* that began after shutdown() returned adds a frame, and no push is left
\* half applied outside the critical section.
C9_PushRacingShutdown ==
    /\ \A t \in Pushers : late[t] => pc[t] \notin {"push_trim", "push_release"}
    /\ lock = NoThread => Len(rx_buffer) <= Capacity

-----------------------------------------------------------------------------
(* The engine used from several threads *)

ConcRest == <<message_definitions, can_to_vss_mapping, op, last_msg, ret, raised, pre,
              bufferVars, opsVars, codecVars, probeVars, loadVars, fmuVars, zonalVars>>

\* The registries are the defaults, or the defaults after
\* add_message_definition(two_signal_msg) and add_vss_mapping for A and B.
InitConcEngine ==
    /\ stats = ZeroStats
    /\ op = "init"
    /\ last_msg = NoMessage
    /\ ret = EmptyDict
    /\ raised = FALSE
    /\ pre = ZeroStats
    /\ InitBuffer
    /\ InitConc
    /\ InitOps /\ IdleLoad /\ IdleFmu /\ InitZonal
    /\ IdleCodec
    /\ IdleProbe
    /\ \E registries \in {"default", "extended"} :
          /\ message_definitions =
                IF registries = "default" THEN DefaultDefinitions
                ELSE [id \in {256, 257, 258, 259} |->
                         IF id = 259 THEN two_signal_msg ELSE DefaultDefinitions[id]]
          /\ can_to_vss_mapping =
                IF registries = "default" THEN DefaultMappings
                ELSE [id \in {256, 257, 258, 259} |->
                         IF id = 259 THEN [n \in {"A", "B"} |->
                                              IF n = "A" THEN "Vehicle.A" ELSE "Vehicle.B"]
                         ELSE DefaultMappings[id]]

NextConc ==
    \/ /\ \E t \in ConvThreads, can_msg \in ConcMsgInputs : ConvCall(t, can_msg)
       /\ UNCHANGED ConcRest
    \/ /\ \E t \in ConvThreads : ConvReceivedRead(t)
       /\ UNCHANGED ConcRest
    \/ /\ \E t \in ConvThreads : ConvReceivedWrite(t)
       /\ UNCHANGED ConcRest
    \/ /\ \E t \in ConvThreads : ConvConvertedRead(t)
       /\ UNCHANGED ConcRest
    \/ /\ \E t \in ConvThreads : ConvConvertedWrite(t)
       /\ UNCHANGED ConcRest
    \/ /\ \E t \in ConvThreads : ConvSentRead(t)
       /\ UNCHANGED ConcRest
    \/ /\ \E t \in ConvThreads : ConvSentWrite(t)
       /\ UNCHANGED ConcRest
    \/ /\ \E t \in ConvThreads : ConvErrorsRead(t)
       /\ UNCHANGED ConcRest
    \/ /\ \E t \in ConvThreads : ConvErrorsWrite(t)
       /\ UNCHANGED ConcRest
    \/ /\ \E t \in ConvThreads : ConvReturn(t)
       /\ UNCHANGED ConcRest

SpecConc == InitConcEngine /\ [][NextConc]_vars

\* C10: after K convert calls made from several threads have all returned,
\* received has grown by exactly K, and converted and signals sent by the
\* sums of what each call adds.
C10_NoLostCounterUpdates ==
    (\A t \in ConvThreads : cpc[t] = "idle") =>
        /\ stats.messages_received = done
        /\ stats.messages_converted = expected.messages_converted
        /\ stats.signals_sent = expected.signals_sent

-----------------------------------------------------------------------------
(* extract_signal_from_data on its own: the arguments are drawn from the     *)
(* sets below and the call is made once.                                     *)

\* The data argument has at most MaxDataLen bytes, the long frame apart.
MaxDataLen == 2

\* 0x00, 0x4B, 0xC8 and 0xFF
CodecBytes == {0, 75, 200, 255}

RECURSIVE BytesUpTo(_)
BytesUpTo(n) ==
    IF n = 0 THEN {<<>>}
    ELSE LET shorter == BytesUpTo(n - 1)
         IN  shorter \cup {Append(d, b) : d \in {x \in shorter : Len(x) = n - 1},
                                          b \in CodecBytes}

\* Every short frame, and one frame of 8 bytes (the dlc of the default
\* definitions).
CodecData == BytesUpTo(MaxDataLen) \cup {<<7, 0, 0, 0, 0, 0, 0, 9>>}

SignalDef(start_bit, bit_length, signal_type, scale, offset, min_val, max_val) ==
    [name |-> "S", start_bit |-> start_bit, bit_length |-> bit_length,
     signal_type |-> signal_type, scale |-> scale, offset |-> offset,
     min_val |-> min_val, max_val |-> max_val]

\* Fields of up to two bytes, on and off a byte boundary; so is <<scale, offset>>.
FieldDefs ==
    {SignalDef(sb, bl, k, so[1], so[2], lo, hi) :
        sb \in {0, 4, 8, 12}, bl \in {0, 1, 4, 8, 12, 16}, k \in CANSignalType,
        so \in {<<1, 0>>, <<2, 1>>},
        lo \in {Absent, Some(10), Some(200)}, hi \in {Absent, Some(150)}}

\* Fields wider than 32 bits.  They are byte aligned and not signed, so that
\* neither 1 << bit_length nor the combined bytes leave the integers of the
\* model checker.
WideDefs ==
    {SignalDef(sb, 40, k, 1, 0, Absent, Absent) :
        sb \in {0, 8}, k \in {"boolean", "uint32", "float"}}

\* Fields that start in the last byte of an 8-byte frame.
LateDefs ==
    {SignalDef(56, bl, k, 1, 0, Absent, Absent) :
        bl \in {8, 16}, k \in {"uint16", "int16"}}

\* With them, fields of a bit_length below -7, for which num_bytes is below 0
\* and the end of the slice counts from the end of data.
CodecDefs ==
    FieldDefs \cup WideDefs \cup LateDefs
    \cup {SignalDef(sb, 0 - bl, k, 1, 0, Absent, Absent) :
             sb \in {0, 4, 8}, bl \in {8, 9, 16},
             k \in {"boolean", "uint8", "int8", "float"}}

InitCodec ==
    /\ InitEngine /\ InitBuffer /\ InitConc /\ InitOps /\ IdleLoad /\ IdleFmu /\ InitZonal /\ IdleProbe
    /\ codec_data \in CodecData
    /\ codec_def \in CodecDefs
    /\ codec_raw = 0
    /\ codec_out = NoneVal
    /\ codec_pc = "input"

ExtractCall ==
    /\ codec_pc = "input"
    /\ codec_pc' = "done"
    /\ codec_out' = extract_signal_from_data(codec_data, codec_def)
    /\ codec_raw' = IF extract_signal_from_data(codec_data, codec_def) = NoneVal THEN 0
                    ELSE RawValue(codec_data, codec_def)
    /\ UNCHANGED <<codec_data, codec_def>>

NextCodec ==
    /\ ExtractCall
    /\ UNCHANGED <<engineVars, bufferVars, concVars, opsVars, probeVars, loadVars, fmuVars, zonalVars>>

SpecCodec == InitCodec /\ [][NextCodec]_vars

-----------------------------------------------------------------------------
(* Properties of the codec, checked under SpecCodec *)

\* Bit i of the natural number n.
BitOf(n, i) == (n \div Pow2(i)) % 2

\* Bit k of the frame, bit 0 being the least significant bit of byte 0.
DataBit(data, k) == BitOf(data[(k \div 8) + 1], k % 8)

\* How many bytes the slice data[start_byte:] has.
BytesFrom(data, signal_def) == Max2(Len(data) - (signal_def.start_bit \div 8), 0)

BytesRequired(signal_def) == (signal_def.bit_length + 7) \div 8

\* C13: when bit_length is in 1..32 and the buffer holds every bit of the
\* field, the raw integer of the call, written back as bit_length bits at
\* start_bit, gives the bits the buffer has there.
C13_RawRoundTrip ==
    (/\ codec_pc = "done"
     /\ codec_def.bit_length \in 1..32
     /\ codec_def.start_bit + codec_def.bit_length <= 8 * Len(codec_data))
    => /\ codec_out # NoneVal
       /\ \A i \in 0..(codec_def.bit_length - 1) :
             BitOf(codec_raw % Pow2(codec_def.bit_length), i)
                = DataBit(codec_data, codec_def.start_bit + i)

\* C14: when the buffer has fewer bytes from start_byte on than the
\* ceil(bit_length/8) the field requires, the call returns None.
C14_TruncatedFieldFails ==
    (/\ codec_pc = "done"
     /\ BytesFrom(codec_data, codec_def) < BytesRequired(codec_def))
    => codec_out = NoneVal

SignedKinds == {"int8", "int16", "int32"}

\* C15: for a signed kind the raw integer is the masked value v read as two's
\* complement within bit_length bits: it differs from v by 0 or 2^bit_length,
\* is v - 2^bit_length exactly when bit bit_length-1 of v is set, lies in
\* -2^(bit_length-1) .. 2^(bit_length-1)-1, and without bounds the result is
\* raw*scale + offset.
C15_SignedIsTwosComplement ==
    (/\ codec_pc = "done"
     /\ codec_def.signal_type \in SignedKinds
     /\ codec_out # NoneVal)
    => LET L == codec_def.bit_length
           v == MaskedValue(codec_data, codec_def)
       IN  /\ v \in 0..(Pow2(L) - 1)
           /\ codec_raw \in (0 - Pow2(L - 1))..(Pow2(L - 1) - 1)
           /\ v >= Pow2(L - 1) => codec_raw = v - Pow2(L)
           /\ v < Pow2(L - 1) => codec_raw = v
           /\ (codec_def.min_val = Absent /\ codec_def.max_val = Absent)
                 => codec_out = [t |-> "num",
                                 v |-> (codec_raw * codec_def.scale) + codec_def.offset]

\* An 8-bit int8 field holding 0xFF with scale 2 and offset 1 has decoded to -1.
C15_Witness ==
    /\ codec_pc = "done"
    /\ codec_data = <<255>>
    /\ codec_def = SignalDef(0, 8, "int8", 2, 1, Absent, Absent)
    /\ codec_raw = 0 - 1
    /\ codec_out = [t |-> "num", v |-> 0 - 1]

\* C16: for a numeric kind the bounds are applied to raw*scale + offset: a
\* scaled value above max_val gives max_val, one below min_val gives min_val
\* (when min_val <= max_val), one within the bounds that are present is
\* returned as it is, and with min_val <= max_val the result lies between them.
C16_ClampAfterScale ==
    (/\ codec_pc = "done"
     /\ codec_def.signal_type \in CANSignalType \ {"boolean"}
     /\ codec_out # NoneVal)
    => LET scaled == (codec_raw * codec_def.scale) + codec_def.offset
           has_min == codec_def.min_val # Absent
           has_max == codec_def.max_val # Absent
           ordered == (has_min /\ has_max) => codec_def.min_val[1] <= codec_def.max_val[1]
       IN  /\ codec_out.t = "num"
           /\ (has_max /\ scaled > codec_def.max_val[1])
                 => codec_out.v = codec_def.max_val[1]
           /\ (has_min /\ scaled < codec_def.min_val[1] /\ ordered)
                 => codec_out.v = codec_def.min_val[1]
           /\ (/\ has_min => scaled >= codec_def.min_val[1]
               /\ has_max => scaled <= codec_def.max_val[1])
                 => codec_out.v = scaled
           /\ (has_min /\ has_max /\ ordered)
                 => codec_out.v \in codec_def.min_val[1]..codec_def.max_val[1]

\* An unsigned 8-bit field holding 200 with scale 1 and max_val 150 has
\* decoded to 150.
C16_Witness ==
    /\ codec_pc = "done"
    /\ codec_data = <<200>>
    /\ codec_def = SignalDef(0, 8, "uint8", 1, 0, Absent, Some(150))
    /\ codec_raw = 200
    /\ codec_out = [t |-> "num", v |-> 150]

\* C17: a field of bit_length 0, a field of bit_length above 32 and a field
\* that the buffer is too short to hold all make the call return None.
C17_MalformedGeometryFails ==
    (/\ codec_pc = "done"
     /\ \/ codec_def.bit_length = 0
        \/ codec_def.bit_length > 32
        \/ 8 * Len(codec_data) < codec_def.start_bit + codec_def.bit_length)
    => codec_out = NoneVal

-----------------------------------------------------------------------------
(* Every operation of the engine, from one thread *)

\* A can_id that is a JSON string, chars being its code points:
\* "0x103" is <<48, 120, 49, 48, 51>>.
StrId(chars) == [kind |-> "str", chars |-> chars, value |-> 0]

IntId(n) == [kind |-> "int", chars |-> <<>>, value |-> n]

SigItem(name, start_bit, bit_length, type) ==
    [complete |-> TRUE, name |-> name, start_bit |-> start_bit,
     bit_length |-> bit_length, type |-> type]

DefItem(can_id, name, signals) ==
    [complete |-> TRUE, can_id |-> can_id, name |-> name, dlc |-> 8, signals |-> signals]

MapEntry(name, vss_path) == [complete |-> TRUE, name |-> name, vss_path |-> vss_path]

\* open() or json.load raises.
unreadable_payload ==
    [readable |-> FALSE, message_definitions |-> Absent, mappings |-> Absent]

\* A well-formed file: the layout of id "0x103" and the destinations of its
\* two signals.
intensity_payload ==
    [readable |-> TRUE,
     message_definitions |-> Some(<<
        DefItem(StrId(<<48, 120, 49, 48, 51>>), "LightIntensity",
                <<SigItem("A", 0, 8, "uint8"), SigItem("B", 8, 8, "uint8")>>)>>),
     mappings |-> Some(<<
        [can_id |-> StrId(<<48, 120, 49, 48, 51>>),
         signals |-> Some(<<MapEntry("A", "Vehicle.A"), MapEntry("B", "Vehicle.B")>>)]>>)]

\* The second definition (can_id "104") has a kind that CANSignalType does
\* not know.
bad_kind_payload ==
    [readable |-> TRUE,
     message_definitions |-> Some(<<
        DefItem(IntId(256), "HeadlampSwitch", <<SigItem("HeadlampStatus", 0, 1, "boolean")>>),
        DefItem(StrId(<<49, 48, 52>>), "Wiper", <<SigItem("Speed", 0, 8, "uint64")>>)>>),
     mappings |-> Some(<<
        [can_id |-> IntId(256),
         signals |-> Some(<<MapEntry("HeadlampStatus", "Vehicle.Body.Lights.Beam")>>)]>>)]

\* A definition for 0x100, the id of the built-in headlamp_msg.
headlamp_switch_msg ==
    CANMessageDefinition(256, "HeadlampSwitch", 8,
        <<CANSignalDefinition("HeadlampStatus", 0, 1, "boolean")>>)

LoadInputs == {unreadable_payload, intensity_payload, bad_kind_payload}

\* In one behaviour of SpecEngine convert_can_message is called at most
\* MaxEngineCalls times and a send fails while errors is below MaxEngineCalls.
MaxEngineCalls == 2

EngineMsgInputs == {NoMessage, Message(259, <<5, 6>>)}

\* The number a caller writes into the dict it got from get_statistics.
WrittenValue == 7

NextEngine ==
    \/ /\ stats.messages_received < MaxEngineCalls
       /\ \E can_msg \in EngineMsgInputs : convert_can_message(can_msg)
       /\ UNCHANGED <<bufferVars, concVars, opsVars, codecVars, probeVars, loadVars, fmuVars, zonalVars>>
    \/ /\ \E msg_def \in {three_signal_msg, headlamp_switch_msg} : add_message_definition(msg_def)
       /\ UNCHANGED <<bufferVars, concVars, opsVars, codecVars, probeVars, loadVars, fmuVars, zonalVars>>
    \/ /\ add_vss_mapping(259, "C", "Vehicle.C")
       /\ UNCHANGED <<bufferVars, concVars, opsVars, codecVars, probeVars, loadVars, fmuVars, zonalVars>>
    \/ /\ \E payload \in LoadInputs : load_mappings_from_json(payload)
       /\ UNCHANGED <<bufferVars, concVars, opsVars, codecVars, probeVars, load_arg, load_pre,
                    fmuVars, zonalVars>>
    \/ /\ \E constructor_raises \in BOOLEAN : connect_to_kuksa(constructor_raises)
       /\ UNCHANGED <<bufferVars, concVars, codecVars, probeVars, loadVars, fmuVars, zonalVars>>
    \/ /\ \E vss_signals \in {ret, EmptyDict} : send_vss_signals(vss_signals)
       /\ UNCHANGED <<bufferVars, concVars, codecVars, probeVars, loadVars, fmuVars, zonalVars>>
    \/ /\ \E fails \in BOOLEAN :
             /\ fails => stats.errors < MaxEngineCalls
             /\ send_vss_signals_resumed(fails)
       /\ UNCHANGED <<bufferVars, concVars, codecVars, probeVars, loadVars, fmuVars, zonalVars>>
    \/ /\ get_statistics
       /\ UNCHANGED <<bufferVars, concVars, codecVars, probeVars, loadVars, fmuVars, zonalVars>>
    \/ /\ SnapshotWrite("messages_received", WrittenValue)
       /\ UNCHANGED <<bufferVars, concVars, codecVars, probeVars, loadVars, fmuVars, zonalVars>>

SpecEngine == Init /\ [][NextEngine]_vars

\* C11: no step of any engine operation (convert, add_message_definition,
\* add_vss_mapping, load, connect, send, get_statistics, a write into a
\* returned snapshot) makes any of the four counters smaller.
C11_CountersNeverDecrease ==
    [][\A k \in DOMAIN stats : stats'[k] >= stats[k]]_vars

\* All four counters are above zero, errors counted by convert and by send
\* alike, and a load and a get_statistics have happened since.
C11_Witness ==
    /\ op = "load_mappings_from_json"
    /\ stats_snap.taken
    /\ stats.messages_received >= 2
    /\ stats.messages_converted >= 1
    /\ stats.signals_sent >= 2
    /\ stats.errors >= 2

\* C12: a write into the dict that get_statistics returned leaves the
\* engine's counters as they are, and a convert call made after the dict was
\* returned leaves what the caller reads in that dict as it is.
C12_StatisticsIsACopy ==
    [][/\ op' = "snapshot_write" => stats' = stats
       /\ (op' = "convert" /\ stats_snap.taken) => SnapshotView' = SnapshotView]_vars

\* The caller has written into the returned dict and a convert call has
\* counted a frame since: the dict and the counters differ in both ways.
C12_Witness ==
    /\ op = "convert"
    /\ stats_snap.taken
    /\ SnapshotView.messages_received = WrittenValue
    /\ SnapshotView.errors < stats.errors
    /\ stats.messages_received = pre.messages_received + 1

\* C21: a step of add_message_definition(msg_def) leaves msg_def, whole, as
\* the definition stored for msg_def.can_id, whatever was stored there
\* before (a built-in default included), and leaves the definitions of every
\* other id, all mappings and all four counters as they were.
C21_RegisterOverwritesOneId ==
    [][op' = "add_message_definition" =>
          \E msg_def \in {three_signal_msg, headlamp_switch_msg} :
             /\ DOMAIN message_definitions' =
                   DOMAIN message_definitions \cup {msg_def.can_id}
             /\ message_definitions'[msg_def.can_id] = msg_def
             /\ \A id \in DOMAIN message_definitions \ {msg_def.can_id} :
                   message_definitions'[id] = message_definitions[id]
             /\ can_to_vss_mapping' = can_to_vss_mapping
             /\ stats' = stats]_vars

\* Both the built-in definition of 0x100 and a loaded definition of 0x103
\* have been replaced by add_message_definition, with mappings registered
\* and counters above zero.
C21_Witness ==
    /\ op = "add_message_definition"
    /\ message_definitions[256] = headlamp_switch_msg
    /\ message_definitions[256] # headlamp_msg
    /\ 259 \in DOMAIN message_definitions
    /\ message_definitions[259] = three_signal_msg
    /\ 259 \in DOMAIN can_to_vss_mapping
    /\ "B" \in DOMAIN can_to_vss_mapping[259]
    /\ stats.messages_converted >= 1

-----------------------------------------------------------------------------
(* An engine as __init__ leaves it, handed one frame *)

\* The three frames of test_can_to_vss_conversion.
DraftFrames ==
    {Message(256, <<1, 0, 0, 0, 0, 0, 0, 0>>),
     Message(257, <<75, 0, 0, 0, 0, 0, 0, 0>>),
     Message(258, <<244, 1, 0, 0, 0, 0, 0, 0>>)}

\* Every first byte for id 0x100 and every first two bytes for id 0x101.
ProbeFrames ==
    {Message(256, <<b>>) : b \in 0..255}
        \cup {Message(257, <<b0, b1>>) : b0 \in 0..255, b1 \in 0..255}
        \cup DraftFrames

InitDefaults ==
    /\ InitEngine /\ InitBuffer /\ InitConc /\ InitOps /\ IdleLoad /\ IdleFmu /\ InitZonal /\ IdleCodec
    /\ probe_msg \in ProbeFrames

NextDefaults ==
    /\ op = "init"
    /\ convert_can_message(probe_msg)
    /\ UNCHANGED <<bufferVars, concVars, opsVars, codecVars, probeVars, loadVars, fmuVars, zonalVars>>

SpecDefaults == InitDefaults /\ [][NextDefaults]_vars

\* C18: with the default registries, converting a frame of id 0x100 returns
\* exactly the one entry IsHighBeamOn with the value of the first byte, and
\* converting a frame of id 0x101 returns exactly the one entry Power with
\* b0 + 256*b1; the entry is there when that value is 0 too.
C18_DefaultsDecodeLittleEndian ==
    (op = "convert") =>
        /\ last_msg.arbitration_id = 256 =>
              ret = [k \in {"Vehicle.Body.Lights.IsHighBeamOn"} |->
                        [t |-> "num", v |-> last_msg.data[1]]]
        /\ last_msg.arbitration_id = 257 =>
              ret = [k \in {"Vehicle.Body.Lighting.Power"} |->
                        [t |-> "num", v |-> last_msg.data[1] + (256 * last_msg.data[2])]]

\* The frame [0xF4, 0x01] of id 0x101 has been converted to 500.
C18_Witness ==
    /\ op = "convert"
    /\ last_msg = Message(257, <<244, 1>>)
    /\ DOMAIN ret = {"Vehicle.Body.Lighting.Power"}
    /\ ret["Vehicle.Body.Lighting.Power"].v = 500

-----------------------------------------------------------------------------
(* The signal loop of convert_can_message, checked under Spec *)

\* The last convert call got a frame whose id is in both registries.
LoopRan ==
    /\ op = "convert"
    /\ last_msg.is_msg
    /\ last_msg.arbitration_id \in DOMAIN message_definitions
    /\ last_msg.arbitration_id \in DOMAIN can_to_vss_mapping

LastSignals == message_definitions[last_msg.arbitration_id].signals

LastMapping == can_to_vss_mapping[last_msg.arbitration_id]

Decoded(j) == extract_signal_from_data(last_msg.data, LastSignals[j])

\* Signal j of the definition decodes and has a mapping entry.
Emits(j) == Decoded(j) # NoneVal /\ LastSignals[j].name \in DOMAIN LastMapping

PathOf(j) == LastMapping[LastSignals[j].name]

SomeSignalFails == \E j \in 1..Len(LastSignals) : Decoded(j) = NoneVal

\* C19 as stated: when the codec fails for one signal, every other signal
\* that decodes and has a mapping is in the result with its own value, and
\* the error counter is as it was.
C19_DecodeFailureIsLocal ==
    (LoopRan /\ SomeSignalFails) =>
        /\ \A j \in 1..Len(LastSignals) :
              Emits(j) => /\ PathOf(j) \in DOMAIN ret
                          /\ ret[PathOf(j)] = Decoded(j)
        /\ stats.errors = pre.errors

\* C20: every key of the dict convert returns is the destination that the
\* mapping of the frame's id gives for a signal of the frame's definition; no
\* call faults unless a mapped destination is unhashable, so a signal without
\* a mapping entry adds no key and no error.
C20_KeysAreMappedDestinations ==
    (op = "convert") =>
        /\ DOMAIN ret # {} => LoopRan
        /\ LoopRan =>
              /\ \A k \in DOMAIN ret :
                    \E j \in 1..Len(LastSignals) :
                        /\ LastSignals[j].name \in DOMAIN LastMapping
                        /\ PathOf(j) = k
              /\ (\A j \in 1..Len(LastSignals) :
                     LastSignals[j].name \in DOMAIN LastMapping => Hashable(PathOf(j)))
                    => /\ ~raised
                       /\ stats.errors = pre.errors

\* A frame whose definition has a signal with a mapping and a decoded signal
\* without one has been converted: one key, no error.
C20_Witness ==
    /\ LoopRan
    /\ ~raised
    /\ stats.errors = pre.errors
    /\ \E j \in 1..Len(LastSignals) :
          Decoded(j) # NoneVal /\ LastSignals[j].name \notin DOMAIN LastMapping
    /\ Cardinality(DOMAIN ret) = 1

\* The (id, signal) pairs that have a destination.
MappedPairs(maps) ==
    UNION {{<<id, n>> : n \in DOMAIN maps[id]} : id \in DOMAIN maps}

\* The signals of the definition stored for the id, none when there is none.
DefinedSignals(id) ==
    IF id \in DOMAIN message_definitions
    THEN {message_definitions[id].signals[j] :
             j \in 1..Len(message_definitions[id].signals)}
    ELSE {}

\* What a convert call that has just returned shows about mappings without
\* a defined signal: the result has no destination other than those of the
\* defined and mapped signals of the frame's id, and has each of those whose
\* signal decodes when no fault ended the call.
InertUntilDefined ==
    (op = "convert" /\ last_msg.is_msg
        /\ last_msg.arbitration_id \in DOMAIN can_to_vss_mapping) =>
       LET id == last_msg.arbitration_id
           live == {sd \in DefinedSignals(id) : sd.name \in DOMAIN can_to_vss_mapping[id]}
       IN  /\ DOMAIN ret \subseteq {can_to_vss_mapping[id][sd.name] : sd \in live}
           /\ ~raised =>
                 \A sd \in live :
                    extract_signal_from_data(last_msg.data, sd) # NoneVal
                       => can_to_vss_mapping[id][sd.name] \in DOMAIN ret

\* C22: a step of add_vss_mapping(can_id, signal_name, vss_path) stores
\* vss_path for (can_id, signal_name) whether or not can_id has a message
\* definition, leaves every other (id, signal) entry, all definitions and all
\* counters as they were; and a mapping whose signal is not in the stored
\* definition adds nothing to what convert returns, until a definition with
\* that signal is stored.
C22_MappingIsDecoupled ==
    [][/\ op' = "add_vss_mapping" =>
             \E can_id \in MapIds, signal_name \in MapNames, vss_path \in MapPaths :
                /\ <<can_id, signal_name>> \in MappedPairs(can_to_vss_mapping')
                /\ can_to_vss_mapping'[can_id][signal_name] = vss_path
                /\ MappedPairs(can_to_vss_mapping') =
                      MappedPairs(can_to_vss_mapping) \cup {<<can_id, signal_name>>}
                /\ \A p \in MappedPairs(can_to_vss_mapping) \ {<<can_id, signal_name>>} :
                      can_to_vss_mapping'[p[1]][p[2]] = can_to_vss_mapping[p[1]][p[2]]
                /\ message_definitions' = message_definitions
                /\ stats' = stats
       /\ InertUntilDefined']_vars

\* A convert call for 0x103 returned a value for a defined signal while "C",
\* mapped but not in the stored two-signal definition, contributed nothing.
C22_Witness ==
    /\ op = "convert"
    /\ last_msg.is_msg /\ last_msg.arbitration_id = 259
    /\ 259 \in DOMAIN message_definitions
    /\ message_definitions[259] = two_signal_msg
    /\ 259 \in DOMAIN can_to_vss_mapping
    /\ "C" \in DOMAIN can_to_vss_mapping[259]
    /\ can_to_vss_mapping[259]["C"] \notin DOMAIN ret
    /\ ret # EmptyDict

\* C25: a step of convert_can_message, whatever the frame and whether or not
\* its signals decode or a fault ends the call, leaves the message
\* definitions and the destination mappings exactly as they were.
C25_ConvertLeavesRegistries ==
    [][op' = "convert" =>
          /\ message_definitions' = message_definitions
          /\ can_to_vss_mapping' = can_to_vss_mapping]_vars

\* Registries that are no longer the defaults, and a convert call on them
\* that ran the signal loop, had a signal that did not decode, and changed
\* the received counter.
C25_Witness ==
    /\ LoopRan
    /\ SomeSignalFails
    /\ message_definitions # DefaultDefinitions
    /\ can_to_vss_mapping # DefaultMappings
    /\ stats.messages_received = pre.messages_received + 1

-----------------------------------------------------------------------------
(* Counter relations, under SpecEngine *)

\* C26: in every state reached by calls made one after the other on an
\* engine whose counters began at zero, messages_converted is at most
\* messages_received and at most signals_sent.
C26_ConvertedIsBounded ==
    /\ stats.messages_converted <= stats.messages_received
    /\ stats.messages_converted <= stats.signals_sent

\* A frame was received and not converted, another was converted into two
\* values, and a send has failed since.
C26_Witness ==
    /\ stats.messages_converted = 1
    /\ stats.messages_received = 2
    /\ stats.signals_sent = 2
    /\ stats.errors >= 1
    /\ op = "send_vss_signals_resumed"

-----------------------------------------------------------------------------
(* One load_mappings_from_json call on its own *)

\* A payload has at most MaxItems message definitions and at most MaxItems
\* mapping groups.
MaxItems == 2

RECURSIVE ListsUpTo(_, _)
ListsUpTo(S, n) ==
    IF n = 0 THEN {<<>>}
    ELSE ListsUpTo(S, n - 1) \cup {Append(l, x) : l \in ListsUpTo(S, n - 1), x \in S}

\* Items of config["message_definitions"]: two well-formed ones, one whose
\* second signal has a kind CANSignalType does not know, one without "name",
\* one whose can_id ("z") is not a hex string.
DefItemInputs ==
    {DefItem(StrId(<<48, 120, 49, 48, 51>>), "LightIntensity",
             <<SigItem("A", 0, 8, "uint8"), SigItem("B", 8, 8, "uint8")>>),
     DefItem(IntId(256), "HeadlampSwitch", <<SigItem("HeadlampStatus", 0, 1, "boolean")>>),
     DefItem(StrId(<<49, 48, 52>>), "Wiper",
             <<SigItem("Mode", 8, 8, "uint8"), SigItem("Speed", 0, 8, "uint64")>>),
     [DefItem(IntId(257), "", <<SigItem("LampPower", 0, 8, "uint8")>>)
         EXCEPT !.complete = FALSE],
     DefItem(StrId(<<122>>), "Unparsed", <<SigItem("A", 0, 8, "uint8")>>)}

\* Items of config["mappings"]: two well-formed groups, one whose second
\* entry has no "vss_path", one without "signals", one without "can_id".
\* The can_id of the third is "\u000b0X1_\uff103": a vertical tab, the
\* prefix in upper case, an underscore and a fullwidth zero, 0x103 to int.
GroupInputs ==
    {[can_id |-> StrId(<<48, 120, 49, 48, 51>>),
      signals |-> Some(<<MapEntry("A", "Vehicle.A"), MapEntry("B", "Vehicle.B")>>)],
     [can_id |-> IntId(256),
      signals |-> Some(<<MapEntry("HeadlampStatus", "Vehicle.Body.Lights.Beam")>>)],
     [can_id |-> StrId(<<11, 48, 88, 49, 95, 65296, 51>>),
      signals |-> Some(<<MapEntry("A", "Vehicle.B"),
                         [complete |-> FALSE, name |-> "B", vss_path |-> ""]>>)],
     [can_id |-> IntId(260), signals |-> Absent],
     [can_id |-> [kind |-> "missing", chars |-> <<>>, value |-> 0],
      signals |-> Some(<<MapEntry("A", "Vehicle.A")>>)]}

LoadPayloads ==
    {unreadable_payload}
    \cup {[readable |-> TRUE, message_definitions |-> d, mappings |-> m] :
             d \in {Absent} \cup {Some(l) : l \in ListsUpTo(DefItemInputs, MaxItems)},
             m \in {Absent} \cup {Some(l) : l \in ListsUpTo(GroupInputs, MaxItems)}}

\* The engine has its default registries, or has in addition a three-signal
\* definition of 0x103 and destinations for its signals A and C.
InitLoad ==
    /\ stats = ZeroStats
    /\ op = "init"
    /\ last_msg = NoMessage
    /\ ret = EmptyDict
    /\ raised = FALSE
    /\ pre = ZeroStats
    /\ InitBuffer /\ InitConc /\ InitOps /\ IdleCodec /\ IdleProbe /\ IdleFmu /\ InitZonal
    /\ \E registries \in {"default", "extended"} :
          /\ message_definitions =
                IF registries = "default" THEN DefaultDefinitions
                ELSE [id \in {256, 257, 258, 259} |->
                         IF id = 259 THEN three_signal_msg ELSE DefaultDefinitions[id]]
          /\ can_to_vss_mapping =
                IF registries = "default" THEN DefaultMappings
                ELSE [id \in {256, 257, 258, 259} |->
                         IF id = 259 THEN [n \in {"A", "C"} |->
                                              IF n = "A" THEN "Vehicle.A" ELSE "Vehicle.C"]
                         ELSE DefaultMappings[id]]
    /\ load_arg \in LoadPayloads
    /\ load_pre = [defs |-> message_definitions, maps |-> can_to_vss_mapping]
    /\ load_ret = [raised |-> FALSE, value |-> "not called"]

NextLoad ==
    /\ op = "init"
    /\ load_mappings_from_json(load_arg)
    /\ UNCHANGED <<bufferVars, concVars, opsVars, codecVars, probeVars, load_arg, load_pre,
                    fmuVars, zonalVars>>

SpecLoad == InitLoad /\ [][NextLoad]_vars

\* The try block of the call looked at did not run to its end.
LoadFailed ==
    /\ op = "load_mappings_from_json"
    /\ ~LoadResult(load_arg, load_pre.defs, load_pre.maps).ok

\* C23: a load_mappings_from_json call on a malformed payload (unreadable,
\* unknown kind string, missing field) raises to its caller, or returns
\* something other than what a call on a well-formed payload returns.
C23_MalformedLoadIsReported ==
    LoadFailed => (load_ret.raised \/ load_ret.value # "None")

\* The items of the payload's definition list, and how many of them, from
\* the first on, are well formed.
ArgItems ==
    IF load_arg.readable /\ load_arg.message_definitions # Absent
    THEN load_arg.message_definitions[1] ELSE <<>>

DefItemOk(item) ==
    /\ item.complete
    /\ CanIdOf(item.can_id) # Absent
    /\ \A j \in 1..Len(item.signals) :
          item.signals[j].complete /\ item.signals[j].type \in CANSignalType

GoodItems ==
    CHOOSE k \in 0..Len(ArgItems) :
       /\ \A i \in 1..k : DefItemOk(ArgItems[i])
       /\ k < Len(ArgItems) => ~DefItemOk(ArgItems[k + 1])

\* The definition a well-formed item with distinct signal names describes.
DescribedBy(item) ==
    CANMessageDefinition(CanIdOf(item.can_id)[1], item.name, item.dlc,
        [j \in 1..Len(item.signals) |->
            CANSignalDefinition(item.signals[j].name, item.signals[j].start_bit,
                                item.signals[j].bit_length, item.signals[j].type)])

\* The well-formed items in front of the first malformed one that name id.
ItemsFor(id) == {i \in 1..GoodItems : CanIdOf(ArgItems[i].can_id)[1] = id}

\* The mapping groups the call gets to: none unless the payload was read and
\* every definition item was well formed.
ArgGroups ==
    IF load_arg.readable /\ GoodItems = Len(ArgItems) /\ load_arg.mappings # Absent
    THEN load_arg.mappings[1] ELSE <<>>

\* How many entries of a group, from the first on, are well formed; none
\* when the group has no usable can_id or no "signals".
GoodEntries(group) ==
    IF CanIdOf(group.can_id) = Absent \/ group.signals = Absent THEN 0
    ELSE CHOOSE k \in 0..Len(group.signals[1]) :
            /\ \A j \in 1..k : group.signals[1][j].complete
            /\ k < Len(group.signals[1]) => ~group.signals[1][k + 1].complete

GroupWhole(group) ==
    /\ CanIdOf(group.can_id) # Absent
    /\ group.signals # Absent
    /\ GoodEntries(group) = Len(group.signals[1])

\* <<g, e>> for every entry in front of the first malformed entry or group.
EntriesBeforeFault ==
    UNION {{<<g, e>> : e \in 1..GoodEntries(ArgGroups[g])} :
              g \in {g \in 1..Len(ArgGroups) :
                        \A f \in 1..(g - 1) : GroupWhole(ArgGroups[f])}}

\* The (id, signal) pair an entry names.
PairOf(h) ==
    <<CanIdOf(ArgGroups[h[1]].can_id)[1], ArgGroups[h[1]].signals[1][h[2]].name>>

EntriesFor(p) == {h \in EntriesBeforeFault : PairOf(h) = p}

LastEntry(H) ==
    CHOOSE h \in H : \A k \in H : k[1] < h[1] \/ (k[1] = h[1] /\ k[2] <= h[2])

\* C24: after a load_mappings_from_json call, whether or not the payload
\* was malformed somewhere, each id named by a definition item in front of
\* the first malformed item holds the definition of the last such item, each
\* (id, signal) named by a mapping entry in front of the first malformed
\* entry holds the destination of the last such entry, nothing behind the
\* first malformed item is stored, and every other definition and mapping is
\* as it was before the call.
C24_LoadKeepsWhatCameBeforeTheFault ==
    op = "load_mappings_from_json" =>
       /\ DOMAIN message_definitions =
             DOMAIN load_pre.defs \cup {CanIdOf(ArgItems[i].can_id)[1] : i \in 1..GoodItems}
       /\ \A id \in DOMAIN message_definitions :
             message_definitions[id] =
                IF ItemsFor(id) # {} THEN DescribedBy(ArgItems[MaxOf(ItemsFor(id))])
                ELSE load_pre.defs[id]
       /\ MappedPairs(can_to_vss_mapping) =
             MappedPairs(load_pre.maps) \cup {PairOf(h) : h \in EntriesBeforeFault}
       /\ \A p \in MappedPairs(can_to_vss_mapping) :
             can_to_vss_mapping[p[1]][p[2]] =
                IF EntriesFor(p) # {}
                THEN LET h == LastEntry(EntriesFor(p))
                     IN  ArgGroups[h[1]].signals[1][h[2]].vss_path
                ELSE load_pre.maps[p[1]][p[2]]

\* A payload with two definition items and two mapping groups, malformed in
\* its second group: the call replaced the stored definition of 0x103 and
\* the destination of its signal A, stored nothing from the malformed entry
\* on, and left the destination of C, which the payload does not name.
C24_Witness ==
    /\ LoadFailed
    /\ Len(ArgItems) = 2 /\ GoodItems = 2
    /\ Len(ArgGroups) = 2
    /\ GroupWhole(ArgGroups[1]) /\ ~GroupWhole(ArgGroups[2])
    /\ GoodEntries(ArgGroups[2]) = 1
    /\ 259 \in DOMAIN load_pre.defs
    /\ message_definitions[259] # load_pre.defs[259]
    /\ can_to_vss_mapping[259]["A"] = "Vehicle.B"
    /\ can_to_vss_mapping[259]["C"] = "Vehicle.C"
    /\ "B" \notin DOMAIN can_to_vss_mapping[259]

-----------------------------------------------------------------------------
(* fmu_can_handler.fmu_to_can_messages, and the engine decoding its frames *)

\* int(power * 1) for a float given in tenths: the fraction is dropped,
\* towards zero.
IntOf(power) == IF power >= 0 THEN power \div 10 ELSE -((-power) \div 10)

\* The two bytes of power_int stored high byte first.
fmu_to_can_messages_HighByteFirst(headlamp, power) ==
    LET power_int == IntOf(power)
    IN  <<Message(256, <<IF headlamp THEN 1 ELSE 0, 0, 0, 0, 0, 0, 0, 0>>),
          Message(257, <<(power_int \div 256) % 256, power_int % 256, 0, 0, 0, 0, 0, 0>>)>>

\* The list of two frames; x & 0xFF is x % 256 and x >> 8 is x \div 256, for
\* negative x too.
fmu_to_can_messages(headlamp, power) ==
    LET power_int == IntOf(power)
    IN  <<Message(256, <<IF headlamp THEN 1 ELSE 0, 0, 0, 0, 0, 0, 0, 0>>),
          Message(257, <<power_int % 256, (power_int \div 256) % 256, 0, 0, 0, 0, 0, 0>>)>>

\* The power, in tenths: every low byte with five high bytes, whole and with
\* a fraction of 0.9, or -1.0, -0.9, 65536.0, 65536.9.
InitFmu ==
    /\ InitEngine /\ InitBuffer /\ InitConc /\ InitOps /\ IdleLoad /\ IdleCodec
    /\ IdleProbe /\ InitZonal
    /\ fmu_headlamp \in BOOLEAN
    /\ fmu_power \in
          {(10 * (lo + (256 * hi))) + f :
              lo \in 0..255, hi \in {0, 1, 127, 128, 255}, f \in {0, 9}}
          \cup {-10, -9, 655360, 655369}
    /\ fmu_messages = <<>>
    /\ fmu_next = 0

FmuEncode ==
    /\ fmu_messages = <<>>
    /\ fmu_messages' = fmu_to_can_messages(fmu_headlamp, fmu_power)
    /\ UNCHANGED <<fmu_headlamp, fmu_power, fmu_next>>
    /\ UNCHANGED <<engineVars, bufferVars, concVars, opsVars, codecVars, probeVars,
                   loadVars, zonalVars>>

\* The engine is handed the next frame of the list.
FmuConvert ==
    /\ fmu_next < Len(fmu_messages)
    /\ convert_can_message(fmu_messages[fmu_next + 1])
    /\ fmu_next' = fmu_next + 1
    /\ UNCHANGED <<fmu_headlamp, fmu_power, fmu_messages>>
    /\ UNCHANGED <<bufferVars, concVars, opsVars, codecVars, probeVars, loadVars, zonalVars>>

NextFmu == FmuEncode \/ FmuConvert

SpecFmu == InitFmu /\ [][NextFmu]_vars

\* C27: for every headlamp state and every power whose int() is in
\* 0..65535, the engine with its default registries turns the first frame of
\* fmu_to_can_messages into IsHighBeamOn = 1 or 0 and the second into
\* Lighting.Power = int(power).
C27_EncodeDecodeRoundTrip ==
    (fmu_next >= 1 /\ 0 <= IntOf(fmu_power) /\ IntOf(fmu_power) <= 65535) =>
        /\ fmu_next = 1 =>
              ret = [k \in {"Vehicle.Body.Lights.IsHighBeamOn"} |->
                        [t |-> "num", v |-> IF fmu_headlamp THEN 1 ELSE 0]]
        /\ fmu_next = 2 =>
              ret = [k \in {"Vehicle.Body.Lighting.Power"} |->
                        [t |-> "num", v |-> IntOf(fmu_power)]]

\* Headlamp on and power 32968.9: both frames converted, the second to 32968.
C27_Witness ==
    /\ fmu_next = 2
    /\ fmu_headlamp
    /\ fmu_power = 329689
    /\ last_msg = Message(257, <<200, 128, 0, 0, 0, 0, 0, 0>>)
    /\ ret["Vehicle.Body.Lighting.Power"].v = 32968
    /\ stats.messages_converted = 2

-----------------------------------------------------------------------------
(* Flow2 zonal_controller: the notifier thread appends to rx_buffer while   *)
(* data_to_Kuksa, in the event-loop thread, iterates over it and clears it. *)
(* Neither takes a lock.  A buffered frame is [n, msg], n its arrival        *)
(* number.                                                                   *)

\* on_msg_received is called with at most MaxFrames frames.
MaxFrames == 3

\* on_msg_received(msg), called by can.Notifier in its own thread.
on_msg_received(msg) ==
    /\ zonal_received < MaxFrames
    /\ IF msg.is_msg
       THEN /\ zonal_rx_buffer' =
                  Append(zonal_rx_buffer, [n |-> zonal_received + 1, msg |-> msg])
            /\ zonal_received' = zonal_received + 1
       ELSE UNCHANGED <<zonal_rx_buffer, zonal_received>>
    /\ UNCHANGED <<zonal_pc, zonal_idx, zonal_set, zonal_examined, zonal_lost>>

\* data_to_Kuksa is called and enters "async with VSSClient(...)"; when the
\* connection fails the except clause prints and the call returns, and main
\* calls again.
DataToKuksaCall(connects) ==
    /\ zonal_pc = "call"
    /\ IF connects
       THEN zonal_pc' = "loop" /\ zonal_idx' = 0
       ELSE UNCHANGED <<zonal_pc, zonal_idx>>
    /\ UNCHANGED <<zonal_rx_buffer, zonal_set, zonal_received, zonal_examined, zonal_lost>>

\* What the loop body does with one frame: the datapoint it sets, if any,
\* and whether msg.data[0] raises IndexError.
DatapointOf(msg) ==
    IF msg.arbitration_id = 256
    THEN IF Len(msg.data) = 0 THEN [raises |-> TRUE, set |-> Absent]
         ELSE [raises |-> FALSE,
               set |-> Some([path |-> "Vehicle.Body.Lights.IsHighBeamOn",
                             value |-> [t |-> "str",
                                        v |-> IF msg.data[1] # 0 THEN "true" ELSE "false"]])]
    ELSE IF msg.arbitration_id = 257 /\ Len(msg.data) >= 2
    THEN [raises |-> FALSE,
          set |-> Some([path |-> "Vehicle.Body.Lighting.Power",
                        value |-> [t |-> "num", v |-> (msg.data[2] * 256) + msg.data[1]]])]
    ELSE [raises |-> FALSE, set |-> Absent]

\* One step of "for msg in rx_buffer": the list iterator compares its
\* position with the length the list has now; it hands out the frame at that
\* position and moves on, or the loop is over.
DataToKuksaNext ==
    /\ zonal_pc = "loop"
    /\ IF zonal_idx < Len(zonal_rx_buffer)
       THEN /\ zonal_examined' = zonal_examined \cup {zonal_rx_buffer[zonal_idx + 1].n}
            /\ zonal_idx' = zonal_idx + 1
            /\ zonal_pc' = "body"
       ELSE zonal_pc' = "clear" /\ UNCHANGED <<zonal_idx, zonal_examined>>
    /\ UNCHANGED <<zonal_rx_buffer, zonal_set, zonal_received, zonal_lost>>

\* The loop body up to its first await, for the frame just handed out:
\* IndexError ends the call in the except clause, without clear(); a frame
\* with nothing to forward goes back to the for; otherwise the datapoint is
\* given to client.set_current_values and the call waits there.
DataToKuksaBody ==
    /\ zonal_pc = "body"
    /\ LET dp == DatapointOf(zonal_rx_buffer[zonal_idx].msg)
       IN  IF dp.raises THEN zonal_pc' = "call" /\ UNCHANGED zonal_set
           ELSE IF dp.set = Absent THEN zonal_pc' = "loop" /\ UNCHANGED zonal_set
           ELSE zonal_pc' = "set" /\ zonal_set' = dp.set
    /\ UNCHANGED <<zonal_rx_buffer, zonal_idx, zonal_received, zonal_examined, zonal_lost>>

\* set_current_values returns, and the call goes on to asyncio.sleep(0.1), or
\* raises, and the except clause ends the call without clear().
DataToKuksaSetReturns(fails) ==
    /\ zonal_pc = "set"
    /\ zonal_pc' = IF fails THEN "call" ELSE "sleep"
    /\ UNCHANGED <<zonal_rx_buffer, zonal_idx, zonal_set, zonal_received, zonal_examined,
                   zonal_lost>>

\* asyncio.sleep(0.1) is over: back to the for.
DataToKuksaSleepReturns ==
    /\ zonal_pc = "sleep"
    /\ zonal_pc' = "loop"
    /\ UNCHANGED <<zonal_rx_buffer, zonal_idx, zonal_set, zonal_received, zonal_examined,
                   zonal_lost>>

\* rx_buffer.clear(), and the return to main's "while True".
DataToKuksaClear ==
    /\ zonal_pc = "clear"
    /\ zonal_lost' = zonal_lost \cup
          ({zonal_rx_buffer[j].n : j \in 1..Len(zonal_rx_buffer)} \ zonal_examined)
    /\ zonal_rx_buffer' = <<>>
    /\ zonal_pc' = "call"
    /\ UNCHANGED <<zonal_idx, zonal_set, zonal_received, zonal_examined>>

NextZonal ==
    \/ /\ \E msg \in {Message(256, <<1>>), Message(257, <<75, 0>>), Message(512, <<>>),
                      NoMessage} : on_msg_received(msg)
       /\ UNCHANGED <<engineVars, bufferVars, concVars, opsVars, codecVars, probeVars,
                      loadVars, fmuVars>>
    \/ /\ \E connects \in BOOLEAN : DataToKuksaCall(connects)
       /\ UNCHANGED <<engineVars, bufferVars, concVars, opsVars, codecVars, probeVars,
                      loadVars, fmuVars>>
    \/ /\ DataToKuksaNext
       /\ UNCHANGED <<engineVars, bufferVars, concVars, opsVars, codecVars, probeVars,
                      loadVars, fmuVars>>
    \/ /\ DataToKuksaBody
       /\ UNCHANGED <<engineVars, bufferVars, concVars, opsVars, codecVars, probeVars,
                      loadVars, fmuVars>>
    \/ /\ \E fails \in BOOLEAN : DataToKuksaSetReturns(fails)
       /\ UNCHANGED <<engineVars, bufferVars, concVars, opsVars, codecVars, probeVars,
                      loadVars, fmuVars>>
    \/ /\ DataToKuksaSleepReturns
       /\ UNCHANGED <<engineVars, bufferVars, concVars, opsVars, codecVars, probeVars,
                      loadVars, fmuVars>>
    \/ /\ DataToKuksaClear
       /\ UNCHANGED <<engineVars, bufferVars, concVars, opsVars, codecVars, probeVars,
                      loadVars, fmuVars>>

SpecZonal == Init /\ [][NextZonal]_vars

\* C28: under every interleaving of the notifier thread with data_to_Kuksa,
\* every frame that rx_buffer.clear() removes has been handed to the body of
\* the for loop before: no frame is lost.
C28_NoFrameIsLost == zonal_lost = {}

====
